---- MODULE Spec2Model ----
(***************************************************************************)
(* A model of generate_dha_datasets.py: the identifier codec               *)
(* (calculate_luhn_checksum, generate_sa_id_number), the registry          *)
(* generator (generate_population_data), the application generator         *)
(* (generate_application_data) and the two follow-up passes                *)
(* (inject_population_quality_issues, inject_application_quality_issues).  *)
(*                                                                         *)
(* Conventions.  Strings of digits are sequences of 0..9.  A date is a     *)
(* triple <<year, month, day>>; a date written with strftime('%Y-%m-%d')   *)
(* is the triple of its three digit strings.  Python's None is the string  *)
(* "None".  Indices are 0-based as in the source, so row idx of a table    *)
(* is data[idx + 1].  A rate is a fraction <<p, q>>; int(n * rate) is      *)
(* (n * p) \div q (the rates drawn are exact in binary floating point).    *)
(* Every call of the random module is a \E over the variable draws, which  *)
(* holds, for the run, the values each draw ranges over: Init fixes it to  *)
(* one of a few scenarios so that the reachable states stay finite.        *)
(***************************************************************************)
EXTENDS Integers, Sequences, FiniteSets, TLC

None == "None"

Min(a, b) == IF a < b THEN a ELSE b

RECURSIVE SumSeq(_)
SumSeq(s) == IF s = <<>> THEN 0 ELSE Head(s) + SumSeq(Tail(s))

\* f"{n:02d}" and f"{n:04d}" for a non-negative n: at least that many digits.
RECURSIVE DigitsOf(_)
DigitsOf(n) == IF n < 10 THEN <<n>> ELSE Append(DigitsOf(n \div 10), n % 10)

RECURSIVE ZeroPad(_, _)
ZeroPad(ds, width) == IF Len(ds) >= width THEN ds ELSE ZeroPad(<<0>> \o ds, width)

Format02d(n) == ZeroPad(DigitsOf(n), 2)
Format04d(n) == ZeroPad(DigitsOf(n), 4)

----------------------------------------------------------------------------
(* Identifier codec *)

\* The loop "for i in range(len(digits) - 1, -1, -2)": i is the 0-based index.
RECURSIVE DoubleEverySecond(_, _)
DoubleEverySecond(digits, i) ==
    IF i < 0 THEN digits
    ELSE DoubleEverySecond(
             [digits EXCEPT ![i + 1] = LET doubled == @ * 2
                                       IN  IF doubled > 9 THEN doubled - 9 ELSE doubled],
             i - 2)

\* A slip of the loop's start: doubling from the second digit from the right.
calculate_luhn_checksum_shifted(number) ==
    LET digits == DoubleEverySecond(number, Len(number) - 2)
        total  == SumSeq(digits)
    IN  (10 - (total % 10)) % 10

calculate_luhn_checksum(number) ==
    LET digits == DoubleEverySecond(number, Len(number) - 1)
        total  == SumSeq(digits)
    IN  (10 - (total % 10)) % 10

\* The date part with the day written before the month.
date_part_day_first(date_of_birth) ==
    LET yy == date_of_birth[1] % 100
        mm == date_of_birth[2]
        dd == date_of_birth[3]
    IN  Format02d(yy) \o Format02d(dd) \o Format02d(mm)

\* The date part f"{yy:02d}{mm:02d}{dd:02d}" of generate_sa_id_number.
date_part(date_of_birth) ==
    LET yy == date_of_birth[1] % 100
        mm == date_of_birth[2]
        dd == date_of_birth[3]
    IN  Format02d(yy) \o Format02d(mm) \o Format02d(dd)

\* generate_sa_id_number with the sequence written without its zero padding.
generate_sa_id_number_unpadded(date_of_birth, gender, sequence, age_indicator) ==
    LET id_without_checksum ==
            date_part(date_of_birth) \o DigitsOf(sequence) \o <<0>>
                \o DigitsOf(age_indicator)
    IN  id_without_checksum \o DigitsOf(calculate_luhn_checksum(id_without_checksum))

\* generate_sa_id_number with its two random draws (sequence, age_indicator)
\* as parameters; gender is accepted and not used, as in the source.
generate_sa_id_number(date_of_birth, gender, sequence, age_indicator) ==
    LET sequence_part == Format04d(sequence)
        citizenship == <<0>>
        id_without_checksum ==
            date_part(date_of_birth) \o sequence_part \o citizenship
                \o DigitsOf(age_indicator)
        checksum == calculate_luhn_checksum(id_without_checksum)
    IN  id_without_checksum \o DigitsOf(checksum)

\* date_of_birth.strftime('%Y-%m-%d'): the three digit strings of the text.
strftime_ymd(d) == <<Format04d(d[1]), Format02d(d[2]), Format02d(d[3])>>

----------------------------------------------------------------------------
(* Calendar arithmetic of datetime and timedelta, in whole days *)

IsLeap(y) == (y % 4 = 0 /\ y % 100 # 0) \/ y % 400 = 0

DaysInMonth(y, m) ==
    IF m = 2 THEN (IF IsLeap(y) THEN 29 ELSE 28)
    ELSE IF m \in {4, 6, 9, 11} THEN 30 ELSE 31

RECURSIVE DaysBeforeMonth(_, _)
DaysBeforeMonth(y, m) ==
    IF m = 1 THEN 0 ELSE DaysBeforeMonth(y, m - 1) + DaysInMonth(y, m - 1)

DaysBeforeYear(y) ==
    (y - 1) * 365 + (y - 1) \div 4 - (y - 1) \div 100 + (y - 1) \div 400

\* datetime(y, m, d).toordinal(): the day number of a date.  A date that the
\* program holds as datetime + timedelta(days) is held here as its ordinal.
toordinal(d) == DaysBeforeYear(d[1]) + DaysBeforeMonth(d[1], d[2]) + d[3]

----------------------------------------------------------------------------
(* Program data *)

SA_PROVINCES ==
    << "Eastern Cape", "Free State", "Gauteng", "KwaZulu-Natal", "Limpopo",
       "Mpumalanga", "Northern Cape", "North West", "Western Cape" >>

DHA_BRANCHES ==
    [ p \in { "Eastern Cape", "Free State", "Gauteng", "KwaZulu-Natal", "Limpopo",
              "Mpumalanga", "Northern Cape", "North West", "Western Cape" } |->
        CASE p = "Eastern Cape"  -> << "Port Elizabeth", "East London", "Mthatha" >>
          [] p = "Free State"    -> << "Bloemfontein", "Welkom" >>
          [] p = "Gauteng"       -> << "Johannesburg", "Pretoria", "Soweto", "Sandton",
                                       "Midrand" >>
          [] p = "KwaZulu-Natal" -> << "Durban", "Pietermaritzburg", "Newcastle" >>
          [] p = "Limpopo"       -> << "Polokwane", "Tzaneen" >>
          [] p = "Mpumalanga"    -> << "Nelspruit", "Witbank" >>
          [] p = "Northern Cape" -> << "Kimberley", "Upington" >>
          [] p = "North West"    -> << "Mahikeng", "Rustenburg" >>
          [] p = "Western Cape"  -> << "Cape Town", "Stellenbosch", "George" >> ]

APPLICATION_TYPES == << "ID Card", "Passport" >>
APPLICATION_STATUSES == << "Pending", "In Progress", "Approved", "Rejected", "Completed" >>
SUBMISSION_CHANNELS == << "Branch", "Online", "Mobile Unit" >>

\* The list of line 188, and the same with one column misnamed.
fields_to_make_missing_misnamed ==
    << "street_address", "cell_number", "postcode", "city" >>

fields_to_make_missing == << "street_address", "cell_number", "postal_code", "city" >>

Elements(s) == { s[j] : j \in 1..Len(s) }

\* The rates the scenarios draw from, as fractions <<p, q>>.
RateZero == <<0, 1>>
RateHalf == <<1, 2>>
RateOne  == <<1, 1>>

\* int(n * rate), and int(n * rate * 2); the latter with its factor dropped.
IntTimesRate(n, rate) == (n * rate[1]) \div rate[2]
IntTimesRateUndoubled(n, rate) == (n * rate[1]) \div rate[2]
IntTimesRateTwice(n, rate) == (n * rate[1] * 2) \div rate[2]

\* The size handed to random.sample: min(requested, population), unclamped
\* when the min is forgotten.
SampleSizeUnclamped(requested, population) == requested

SampleSize(requested, population) == Min(requested, population)

\* The k-element subsets of S: the outcomes of set(random.sample(S, k)).
SubsetsOfSize(S, k) == { T \in SUBSET S : Cardinality(T) = k }

----------------------------------------------------------------------------
(* Bounds and scenarios *)

\* The largest number of rows of either table when two runs are compared.
MaxRunRows == 2

\* The largest number of registry rows in the scenarios about identifiers.
MaxRows == 3

\* The largest number of registry rows in the scenarios about the planner.
MaxPlanRows == 2

\* The largest numbers of registry rows and of application rows in the
\* scenarios about the link between the two tables.
MaxLinkRows == 2

MaxApplicationRows == 2

VARIABLES
    draws,                  \* what each random draw of the run ranges over
    now,                    \* the day (ordinal) datetime.now() falls on
    caller,                 \* "main", or "two_step": generation with default
                            \* rates, then inject_population_quality_issues
    POPULATION_ROWS, APPLICATION_ROWS,          \* the configuration (main)
    DUPLICATE_RATE, MISSING_VALUE_RATE, INVALID_VALUE_RATE,
    pc,                     \* the program's position
    error,                  \* the exception that ended the run, or None
    requests,               \* the random.sample calls made: site, size, population
    duplicate_indices, missing_indices, invalid_postal_indices,
    future_date_indices, formatting_indices, formatting_types, missing_fields,
    data, id_numbers, id_list, issues, i,       \* generate_population_data
    date_of_birth, gender, sa_id, dup_pos,
    population_df, pop_issues,                  \* main
    application_df, app_issues, orphan_count,
    population_ids, id_to_province, branch_codes,   \* generate_application_data
    app_data, app_i,
    paths,                  \* per application row, the branches it was made on
    df, df_issues, turn, sample_list,           \* the two follow-up passes
    number, checksum,                           \* calculate_luhn_checksum alone
    run_now, run_population, run_applications   \* two runs of one seed, side by side

configVars == <<draws, now, caller, POPULATION_ROWS, APPLICATION_ROWS,
                DUPLICATE_RATE, MISSING_VALUE_RATE, INVALID_VALUE_RATE>>
planVars == <<duplicate_indices, missing_indices, invalid_postal_indices,
              future_date_indices, formatting_indices, formatting_types,
              missing_fields>>
recordVars == <<date_of_birth, gender, sa_id>>
popVars == <<data, id_numbers, id_list, issues, i, date_of_birth, gender, sa_id,
             dup_pos>>
mainVars == <<population_df, pop_issues, application_df, app_issues, orphan_count>>
appVars == <<population_ids, id_to_province, branch_codes, app_data, app_i, paths>>
passVars == <<df, df_issues, turn, sample_list>>
luhnVars == <<number, checksum>>
runsVars == <<run_now, run_population, run_applications>>

vars == <<draws, now, caller, POPULATION_ROWS, APPLICATION_ROWS,
          DUPLICATE_RATE, MISSING_VALUE_RATE, INVALID_VALUE_RATE, pc,
          error, requests, duplicate_indices, missing_indices,
          invalid_postal_indices, future_date_indices, formatting_indices,
          formatting_types, missing_fields, data, id_numbers, id_list, issues,
          i, date_of_birth, gender, sa_id, dup_pos, population_df, pop_issues,
          application_df, app_issues, orphan_count, population_ids,
          id_to_province, branch_codes, app_data, app_i, paths, df, df_issues,
          turn, sample_list, number, checksum, run_now, run_population,
          run_applications>>

\* The arguments of generate_population_data: main passes its configuration
\* (lines 880-886); the rates default to 0.0 (lines 145-147).
num_rows == POPULATION_ROWS
duplicate_rate == IF caller = "main" THEN DUPLICATE_RATE ELSE RateZero
missing_rate == IF caller = "main" THEN MISSING_VALUE_RATE ELSE RateZero
invalid_rate == IF caller = "main" THEN INVALID_VALUE_RATE ELSE RateZero

\* A scenario that exercises the anomaly planner: every rate varies, the
\* contents of a record do not (one birth date, as many sequences as rows).
DrawsPlanner ==
    [ birth_dates    |-> { <<1985, 6, 15>> },
      genders        |-> { "Male" },
      sequences      |-> 1..MaxPlanRows,
      age_indicators |-> { 8 },
      provinces      |-> { "Gauteng" },
      upper          |-> { TRUE },
      invalid_postal |-> { "100" },
      cell_prefixes  |-> { "+27" },
      randint        |-> { "lo" },
      high_codes     |-> { {} },
      reference      |-> { TRUE },
      orphan_dates   |-> { <<1985, 6, 15>> },
      statuses       |-> { "Pending" },
      branch_match   |-> { TRUE },
      valid_days     |-> { TRUE },
      valid_order    |-> { TRUE },
      missing_fields |-> Elements(fields_to_make_missing),
      formatting_types |-> { "name_case", "phone_format" },
      row_ends       |-> { "lo" } ]

\* A scenario that exercises the identifiers: two birth dates with two
\* identifiers each, so that collisions, retries and duplicates of a record
\* with another birth date all happen.
DrawsIdentifiers ==
    [ birth_dates    |-> { <<1985, 6, 15>>, <<2000, 12, 28>> },
      genders        |-> { "Female" },
      sequences      |-> { 0, 9999 },
      age_indicators |-> { 8 },
      provinces      |-> { "Gauteng", "Western Cape" },
      upper          |-> { FALSE },
      invalid_postal |-> { "ABCD" },
      cell_prefixes  |-> { "0" },
      randint        |-> { "hi" },
      high_codes     |-> { DOMAIN DHA_BRANCHES },
      reference      |-> { TRUE },
      orphan_dates   |-> { <<1985, 6, 15>> },
      statuses       |-> { None },
      branch_match   |-> { TRUE },
      valid_days     |-> { TRUE },
      valid_order    |-> { TRUE },
      missing_fields |-> { "city" },
      formatting_types |-> { "name_case" },
      row_ends       |-> { "lo" } ]

\* A scenario that exercises the link between the two tables: a registry
\* of at most MaxLinkRows rows drawn from two identifiers, and applications
\* that refer to it or carry an identifier of their own, drawn from the same
\* two.
DrawsLinks ==
    [ birth_dates    |-> { <<1985, 6, 15>> },
      genders        |-> { "Male" },
      sequences      |-> { 0, 9999 },
      age_indicators |-> { 0 },
      provinces      |-> { "Limpopo", "Mpumalanga" },
      upper          |-> { TRUE },
      invalid_postal |-> { "" },
      cell_prefixes  |-> { "+27" },
      randint        |-> { "lo" },
      high_codes     |-> { {} },
      reference      |-> { TRUE, FALSE },
      orphan_dates   |-> { <<1985, 6, 15>>, <<1980, 1, 1>> },
      statuses       |-> { "Approved" },
      branch_match   |-> { TRUE },
      valid_days     |-> { TRUE },
      valid_order    |-> { TRUE },
      missing_fields |-> { "postal_code" },
      formatting_types |-> { "phone_format" },
      row_ends       |-> { "lo" } ]

\* A scenario that exercises the follow-up pass over the applications:
\* statuses present and absent, branches that match and that do not.
DrawsFollowUp ==
    [ birth_dates    |-> { <<1990, 2, 28>> },
      genders        |-> { "Female" },
      sequences      |-> { 1234, 1235 },
      age_indicators |-> { 8 },
      provinces      |-> { "Eastern Cape" },
      upper          |-> { FALSE },
      invalid_postal |-> { "10000" },
      cell_prefixes  |-> { "0" },
      randint        |-> { "lo" },
      high_codes     |-> { { "Eastern Cape" } },
      reference      |-> { TRUE },
      orphan_dates   |-> { <<2000, 12, 28>> },
      statuses       |-> { "Pending", None },
      branch_match   |-> { TRUE, FALSE },
      valid_days     |-> { TRUE },
      valid_order    |-> { TRUE },
      missing_fields |-> { "cell_number" },
      formatting_types |-> { "phone_format" },
      row_ends       |-> { "lo", "hi" } ]

\* A scenario that exercises inject_population_quality_issues on a table
\* generated with the default rates.
DrawsTwoStep ==
    [ birth_dates    |-> { <<1944, 1, 1>> },
      genders        |-> { "Male" },
      sequences      |-> 1..MaxPlanRows,
      age_indicators |-> { 0 },
      provinces      |-> { "Free State" },
      upper          |-> { TRUE },
      invalid_postal |-> { "999" },
      cell_prefixes  |-> { "+27" },
      randint        |-> { "lo" },
      high_codes     |-> { {} },
      reference      |-> { TRUE },
      orphan_dates   |-> { <<1980, 1, 1>> },
      statuses       |-> { "Completed" },
      branch_match   |-> { TRUE },
      valid_days     |-> { TRUE },
      valid_order    |-> { TRUE },
      missing_fields |-> { "postal_code", "cell_number" },
      formatting_types |-> { "name_case", "phone_format" },
      row_ends       |-> { "lo", "hi" } ]

\* random.randint(lo, hi), restricted to the ends the scenario draws.
Randint(lo, hi) ==
    { v \in {lo, hi} : (v = lo /\ "lo" \in draws.randint)
                       \/ (v = hi /\ "hi" \in draws.randint) }

\* random.randint(0, rows - 1), the draw of a row, restricted likewise.
RandRow(rows) ==
    { v \in {0, rows - 1} : (v = 0 /\ "lo" \in draws.row_ends)
                            \/ (v = rows - 1 /\ "hi" \in draws.row_ends) }

NoIssues ==
    [ duplicates |-> 0, missing_values |-> 0, invalid_postal_codes |-> 0,
      future_dates |-> 0, inconsistent_formatting |-> 0 ]

\* The state on entry to generate_population_data (lines 161-170).
InitLocals ==
    /\ error = None
    /\ requests = {}
    /\ duplicate_indices = {} /\ missing_indices = {}
    /\ invalid_postal_indices = {} /\ future_date_indices = {}
    /\ formatting_indices = {}
    /\ formatting_types = <<>> /\ missing_fields = <<>>
    /\ data = <<>> /\ id_numbers = {} /\ id_list = <<>>
    /\ issues = NoIssues
    /\ i = 0
    /\ date_of_birth = None /\ gender = None /\ sa_id = None
    /\ dup_pos = 1
    /\ population_df = None /\ pop_issues = None
    /\ application_df = None /\ app_issues = None /\ orphan_count = None
    /\ population_ids = <<>> /\ id_to_province = <<>> /\ branch_codes = <<>>
    /\ app_data = <<>> /\ app_i = 0 /\ paths = <<>>
    /\ df = None /\ df_issues = None /\ turn = 0 /\ sample_list = <<>>

InitPlanner ==
    /\ draws = DrawsPlanner
    /\ caller = "main"
    /\ POPULATION_ROWS \in 0..MaxPlanRows
    /\ APPLICATION_ROWS = 0
    /\ DUPLICATE_RATE \in {RateZero, RateOne}
    /\ MISSING_VALUE_RATE \in {RateZero, RateHalf}
    /\ INVALID_VALUE_RATE \in {RateZero, RateHalf, RateOne}

InitLinks ==
    /\ draws = DrawsLinks
    /\ caller = "main"
    /\ POPULATION_ROWS \in 0..MaxLinkRows
    /\ APPLICATION_ROWS \in 0..MaxApplicationRows
    /\ DUPLICATE_RATE \in {RateZero, RateOne}
    /\ MISSING_VALUE_RATE = RateZero
    /\ INVALID_VALUE_RATE = RateZero

\* Applications on the valid and the invalid paths of the duration and of
\* the date order, every random.randint returning the given end of its range.
DrawsDates(end) ==
    [ birth_dates    |-> { <<1985, 6, 15>> },
      genders        |-> { "Male" },
      sequences      |-> { 7 },
      age_indicators |-> { 3 },
      provinces      |-> { "Gauteng" },
      upper          |-> { TRUE },
      invalid_postal |-> { "ABCD" },
      cell_prefixes  |-> { "+27" },
      randint        |-> { end },
      high_codes     |-> { IF end = "hi" THEN DOMAIN DHA_BRANCHES ELSE {} },
      reference      |-> { TRUE },
      orphan_dates   |-> { <<1980, 1, 1>> },
      statuses       |-> { "Completed", None },
      branch_match   |-> { TRUE },
      valid_days     |-> { TRUE, FALSE },
      valid_order    |-> { TRUE, FALSE },
      missing_fields |-> { "city" },
      formatting_types |-> { "name_case" },
      row_ends       |-> { "lo" } ]

InitDates ==
    /\ \E end \in {"lo", "hi"} : draws = DrawsDates(end)
    /\ caller = "main"
    /\ POPULATION_ROWS = 1
    /\ APPLICATION_ROWS \in 1..MaxApplicationRows
    /\ DUPLICATE_RATE = RateZero
    /\ MISSING_VALUE_RATE \in {RateZero, RateOne}
    /\ INVALID_VALUE_RATE \in {RateZero, RateOne}

InitFollowUp ==
    /\ draws = DrawsFollowUp
    /\ caller = "main"
    /\ POPULATION_ROWS = 2
    /\ APPLICATION_ROWS \in 1..MaxApplicationRows
    /\ DUPLICATE_RATE \in {RateZero, RateOne}
    /\ MISSING_VALUE_RATE \in {RateZero, RateHalf, RateOne}
    /\ INVALID_VALUE_RATE \in {RateZero, RateOne}

InitTwoStep ==
    /\ draws = DrawsTwoStep
    /\ caller = "two_step"
    /\ POPULATION_ROWS \in 0..MaxPlanRows
    /\ APPLICATION_ROWS = 0
    /\ DUPLICATE_RATE \in {RateZero, RateHalf, RateOne}
    /\ MISSING_VALUE_RATE \in {RateZero, RateHalf}
    /\ INVALID_VALUE_RATE \in {RateZero, RateHalf}

InitIdentifiers ==
    /\ draws = DrawsIdentifiers
    /\ caller = "main"
    /\ POPULATION_ROWS \in 0..MaxRows
    /\ APPLICATION_ROWS = 0
    /\ DUPLICATE_RATE \in {RateZero, RateHalf, RateOne}
    /\ MISSING_VALUE_RATE = RateZero
    /\ INVALID_VALUE_RATE = RateZero

\* The side-by-side runs are not in use.
NoRuns == run_now = <<>> /\ run_population = <<>> /\ run_applications = <<>>

Init ==
    /\ now = toordinal(<<2025, 1, 1>>)
    /\ \/ InitPlanner \/ InitIdentifiers \/ InitLinks \/ InitFollowUp \/ InitTwoStep
       \/ InitDates
    /\ InitLocals
    /\ pc = "pop_plan"
    /\ number = <<>> /\ checksum = None
    /\ NoRuns

----------------------------------------------------------------------------
(* generate_population_data *)

Raise(exception) ==
    /\ pc' = "raised"
    /\ error' = exception

\* One call random.sample(range(population), size) at a site of the source.
Request(site, size, population) ==
    [ site |-> site, size |-> size, population |-> population ]

\* Lines 172-195: the counts, the five index sets and the two per-index
\* choices.  A category whose count is 0 draws nothing; random.sample raises
\* ValueError when asked for more than the population holds.
PlanAnomalies ==
    /\ pc = "pop_plan"
    /\ LET num_duplicates     == IntTimesRate(num_rows, duplicate_rate)
           num_missing        == IntTimesRate(num_rows, missing_rate)
           num_invalid_postal == IntTimesRate(num_rows, invalid_rate)
           num_future_dates   == IntTimesRate(num_rows, invalid_rate)
           num_formatting     == IntTimesRateTwice(num_rows, invalid_rate)
           Size(num) == IF num > 0 THEN SampleSize(num, num_rows) ELSE 0
           called ==
               { r \in { Request("generate_population_data.duplicate", Size(num_duplicates), num_rows),
                         Request("generate_population_data.missing", Size(num_missing), num_rows),
                         Request("generate_population_data.invalid_postal", Size(num_invalid_postal), num_rows),
                         Request("generate_population_data.future_date", Size(num_future_dates), num_rows),
                         Request("generate_population_data.formatting", Size(num_formatting), num_rows) } :
                   r.size > 0 }
           all == 0..(num_rows - 1)
       IN  /\ requests' = requests \cup called
           /\ IF \E r \in called : r.size > r.population
              THEN /\ Raise("ValueError")
                   /\ UNCHANGED <<planVars, i>>
              ELSE /\ duplicate_indices' \in SubsetsOfSize(all, Size(num_duplicates))
                   /\ missing_indices' \in SubsetsOfSize(all, Size(num_missing))
                   /\ invalid_postal_indices' \in SubsetsOfSize(all, Size(num_invalid_postal))
                   /\ future_date_indices' \in SubsetsOfSize(all, Size(num_future_dates))
                   /\ formatting_indices' \in SubsetsOfSize(all, Size(num_formatting))
                   /\ formatting_types' \in
                          [formatting_indices' -> draws.formatting_types]
                   /\ missing_fields' \in
                          [missing_indices' -> draws.missing_fields]
                   /\ i' = 0
                   /\ pc' = IF num_rows > 0 THEN "pop_record" ELSE "pop_dups"
                   /\ UNCHANGED error
    /\ UNCHANGED <<configVars, data, id_numbers, id_list, issues, recordVars,
                   dup_pos, mainVars, appVars, passVars, luhnVars, runsVars>>

\* Lines 205-215: the birth date, the gender and the first identifier drawn.
DrawRecord ==
    /\ pc = "pop_record"
    /\ \E dob \in draws.birth_dates, g \in draws.genders,
          sequence \in draws.sequences, age_indicator \in draws.age_indicators :
          /\ date_of_birth' = dob
          /\ gender' = g
          /\ sa_id' = generate_sa_id_number(dob, g, sequence, age_indicator)
    /\ pc' = "pop_unique"
    /\ UNCHANGED <<configVars, error, requests, planVars, data, id_numbers,
                   id_list, issues, i, dup_pos, mainVars, appVars, passVars, luhnVars, runsVars>>

\* The loop test "sa_id in id_numbers" (line 217), and a test that never
\* finds a collision.
CollidesNever(candidate, issued) == FALSE

Collides(candidate, issued) == candidate \in issued

\* Lines 217-218: one turn of "while sa_id in id_numbers", the call of line
\* 218 drawing the given sequence and age indicator.
RedrawIdentifierTo(sequence, age_indicator) ==
    /\ pc = "pop_unique"
    /\ Collides(sa_id, id_numbers)
    /\ sa_id' = generate_sa_id_number(date_of_birth, gender, sequence, age_indicator)
    /\ UNCHANGED <<configVars, pc, error, requests, planVars, data, id_numbers,
                   id_list, issues, i, date_of_birth, gender, dup_pos, mainVars,
                   appVars, passVars, luhnVars, runsVars>>

RedrawIdentifier ==
    \E sequence \in draws.sequences, age_indicator \in draws.age_indicators :
        RedrawIdentifierTo(sequence, age_indicator)

\* first_name.upper() and first_name.lower() of a name Faker gave.
Upper(name) == "NAME"
Lower(name) == "name"

\* Lines 272-275 and 394-397: the other way of writing the cell number.
TogglePhoneFormat(cell_number) ==
    IF Len(cell_number) >= 3 /\ SubSeq(cell_number, 1, 3) = "+27"
    THEN "0" \o SubSeq(cell_number, 4, Len(cell_number))
    ELSE IF Len(cell_number) >= 1 /\ SubSeq(cell_number, 1, 1) = "0"
    THEN "+27" \o SubSeq(cell_number, 2, Len(cell_number))
    ELSE cell_number

Count(b) == IF b THEN 1 ELSE 0

\* The counters after record idx (lines 231, 251, 261, 276, 290); and the
\* same with the phone_format subtype left uncounted.
issues_after_record_name_only(idx) ==
    [ issues EXCEPT
        !.inconsistent_formatting =
            @ + Count(idx \in formatting_indices /\ formatting_types[idx] = "name_case"),
        !.invalid_postal_codes = @ + Count(idx \in invalid_postal_indices),
        !.missing_values = @ + Count(idx \in missing_indices),
        !.future_dates = @ + Count(idx \in future_date_indices) ]

issues_after_record(idx) ==
    [ issues EXCEPT
        !.inconsistent_formatting =
            @ + Count(idx \in formatting_indices /\ formatting_types[idx] = "name_case")
              + Count(idx \in formatting_indices /\ formatting_types[idx] = "phone_format"),
        !.invalid_postal_codes = @ + Count(idx \in invalid_postal_indices),
        !.missing_values = @ + Count(idx \in missing_indices),
        !.future_dates = @ + Count(idx \in future_date_indices) ]

\* Lines 282-292: the days record_created_date can fall on, for a record born
\* on dob and generated on the day today; and the same counted from the
\* birth date itself, without the year that line 283 adds.
RecordCreatedDateChoicesFromBirth(today, dob, in_future_date_indices) ==
    LET min_created_date == toordinal(dob)
        max_created_date == today
        days_diff == max_created_date - min_created_date
    IN  IF in_future_date_indices
        THEN { today + future_days : future_days \in Randint(1, 30) }
        ELSE { min_created_date + past_days : past_days \in Randint(0, days_diff) }

RecordCreatedDateChoices(today, dob, in_future_date_indices) ==
    LET min_created_date == toordinal(dob) + 365
        max_created_date == today
        days_diff == max_created_date - min_created_date
    IN  IF in_future_date_indices
        THEN { today + future_days : future_days \in Randint(1, 30) }
        ELSE { min_created_date + past_days : past_days \in Randint(0, days_diff) }

\* Lines 219-311: the identifier is unused, so the rest of the record is
\* built, the counters are raised and the record is appended.
FinishRecord ==
    /\ pc = "pop_unique"
    /\ ~Collides(sa_id, id_numbers)
    /\ id_numbers' = id_numbers \cup {sa_id}
    /\ \E province \in draws.provinces, upper \in draws.upper,
          invalid_code \in draws.invalid_postal,
          cell_prefix \in draws.cell_prefixes,
          created \in RecordCreatedDateChoices(now, date_of_birth,
                                               i \in future_date_indices) :
       LET name_case  == i \in formatting_indices /\ formatting_types[i] = "name_case"
           phone_case == i \in formatting_indices /\ formatting_types[i] = "phone_format"
           Missing(f) == i \in missing_indices /\ missing_fields[i] = f
           first_name == IF name_case
                         THEN (IF upper THEN Upper("Name") ELSE Lower("Name"))
                         ELSE "Name"
           city == IF Missing("city") THEN None ELSE "City"
           street_address == IF Missing("street_address") THEN None ELSE "Street"
           drawn_postal == IF i \in invalid_postal_indices
                           THEN invalid_code ELSE "postcode"
           postal_code == IF Missing("postal_code") THEN None ELSE drawn_postal
           drawn_cell == cell_prefix \o "100000000"
           toggled_cell == IF phone_case THEN TogglePhoneFormat(drawn_cell)
                           ELSE drawn_cell
           cell_number == IF Missing("cell_number") THEN None ELSE toggled_cell
       IN  /\ issues' = issues_after_record(i)
           /\ id_list' = IF i \in duplicate_indices
                         THEN Append(id_list, <<i, sa_id>>) ELSE id_list
           /\ data' = Append(data,
                [ sa_id_number        |-> sa_id,
                  first_name          |-> first_name,
                  last_name           |-> "Surname",
                  date_of_birth       |-> strftime_ymd(date_of_birth),
                  gender              |-> gender,
                  citizenship_status  |-> "South African",
                  province            |-> province,
                  city                |-> city,
                  street_address      |-> street_address,
                  postal_code         |-> postal_code,
                  cell_number         |-> cell_number,
                  record_created_date |-> created ])
    /\ i' = i + 1
    /\ pc' = IF i + 1 < num_rows THEN "pop_record" ELSE "pop_dups"
    /\ UNCHANGED <<configVars, error, requests, planVars, recordVars, dup_pos,
                   mainVars, appVars, passVars, luhnVars, runsVars>>

\* The indices a duplicate may copy from (line 318), and the same without
\* the exclusion of the duplicate itself.
SourceCandidatesAny(all_indices, dup_idx) == all_indices

SourceCandidates(all_indices, dup_idx) == { idx \in all_indices : idx # dup_idx }

\* Line 319: record dup_idx takes the identifier of record source_idx; and
\* the same taking the whole record.
CopyWholeRecord(table, dup_idx, source_idx) ==
    [table EXCEPT ![dup_idx + 1] = table[source_idx + 1]]

CopyIdentifier(table, dup_idx, source_idx) ==
    [table EXCEPT ![dup_idx + 1].sa_id_number = table[source_idx + 1].sa_id_number]

\* Lines 314-320: one turn of the duplicate pass, for the next entry of
\* id_list; random.choice of an empty list raises IndexError.
ApplyDuplicate ==
    /\ pc = "pop_dups"
    /\ duplicate_indices # {}
    /\ dup_pos <= Len(id_list)
    /\ LET dup_idx == id_list[dup_pos][1]
           all_indices == 0..(num_rows - 1)
           candidates == SourceCandidates(all_indices, dup_idx)
       IN  \/ /\ candidates = {}
              /\ Raise("IndexError")
              /\ UNCHANGED <<data, issues, dup_pos>>
           \/ /\ \E source_idx \in candidates :
                    data' = CopyIdentifier(data, dup_idx, source_idx)
              /\ issues' = [issues EXCEPT !.duplicates = @ + 1]
              /\ dup_pos' = dup_pos + 1
              /\ UNCHANGED <<pc, error>>
    /\ UNCHANGED <<configVars, requests, planVars, id_numbers, id_list, i,
                   recordVars, mainVars, appVars, passVars, luhnVars, runsVars>>

\* Line 325 and main line 880: the table and the statistics are returned,
\* after the duplicate pass; and the same return without waiting for the pass.
ReturnPopulationEarly ==
    /\ pc = "pop_dups"
    /\ population_df' = data
    /\ pop_issues' = issues
    /\ pc' = "pop_returned"
    /\ UNCHANGED <<configVars, error, requests, planVars, popVars, application_df,
                   app_issues, orphan_count, appVars, passVars, luhnVars, runsVars>>

ReturnPopulation ==
    /\ pc = "pop_dups"
    /\ duplicate_indices = {} \/ dup_pos > Len(id_list)
    /\ pc' = "pop_returned"
    /\ population_df' = data
    /\ pop_issues' = issues
    /\ UNCHANGED <<configVars, error, requests, planVars, popVars, application_df,
                   app_issues, orphan_count, appVars, passVars, luhnVars, runsVars>>

----------------------------------------------------------------------------
(* generate_application_data *)

\* random.choice(list), restricted to the ends the scenario draws.
PickFrom(list) == { list[k] : k \in Randint(1, Len(list)) }

\* dict(zip(ids, provinces)) (line 445): a later row replaces an earlier one
\* with the same identifier; and a lookup that keeps the earliest row.
FirstRowWith(table, id) ==
    CHOOSE k \in 1..Len(table) :
        /\ table[k].sa_id_number = id
        /\ \A m \in 1..(k - 1) : table[m].sa_id_number # id

LastRowWith(table, id) ==
    CHOOSE k \in 1..Len(table) :
        /\ table[k].sa_id_number = id
        /\ \A m \in (k + 1)..Len(table) : table[m].sa_id_number # id

IdToProvince(table) ==
    [ id \in { table[k].sa_id_number : k \in 1..Len(table) } |->
        table[LastRowWith(table, id)].province ]

AllBranches == UNION { Elements(DHA_BRANCHES[p]) : p \in DOMAIN DHA_BRANCHES }

\* Lines 448-451: random.randint(100, 9999) for every branch, restricted to
\* the ends of its range; the scenario names the provinces whose branches
\* draw the high end.
BranchCodeDraws ==
    { [ b \in AllBranches |->
          IF \E province \in high : b \in Elements(DHA_BRANCHES[province])
          THEN 9999 ELSE 100 ] : high \in draws.high_codes }

\* Lines 441-454: the identifier list, the province lookup and a code for
\* every branch, f"{random.randint(100, 9999):04d}".
StartApplications ==
    /\ pc = "pop_returned"
    /\ caller = "main"
    /\ population_ids' = [ k \in 1..Len(population_df) |-> population_df[k].sa_id_number ]
    /\ id_to_province' = IdToProvince(population_df)
    /\ \E codes \in BranchCodeDraws :
          branch_codes' = [ b \in AllBranches |-> Format04d(codes[b]) ]
    /\ app_data' = <<>>
    /\ paths' = <<>>
    /\ app_i' = 0
    /\ pc' = IF APPLICATION_ROWS > 0 THEN "app_record" ELSE "app_done"
    /\ UNCHANGED <<configVars, error, requests, planVars, popVars, mainVars,
                   passVars, luhnVars, runsVars>>

\* Lines 465-477: the identifier and province of a row.  The reference path
\* draws from the registry (random.choice of an empty list raises
\* IndexError); the orphan path makes an identifier of its own.
ReferenceLinks ==
    { [ sa_id_number |-> population_ids[k],
        province     |-> id_to_province[population_ids[k]],
        orphan       |-> FALSE ] : k \in 1..Len(population_ids) }

OrphanLinks ==
    { [ sa_id_number |-> generate_sa_id_number(d, g, sequence, age_indicator),
        province     |-> p,
        orphan       |-> TRUE ] :
        d \in draws.orphan_dates, g \in draws.genders,
        sequence \in draws.sequences, age_indicator \in draws.age_indicators,
        p \in draws.provinces }

\* Lines 489-500: the branch of a row of the given province; and the same
\* with the row's own province left among the other provinces (line 496
\* without its filter).
BranchChoicesUnfiltered(province, matching) ==
    IF province \in DOMAIN DHA_BRANCHES
    THEN IF matching
         THEN PickFrom(DHA_BRANCHES[province])
         ELSE LET other_provinces == SA_PROVINCES
              IN  UNION { PickFrom(DHA_BRANCHES[other_province]) :
                            other_province \in PickFrom(other_provinces) }
    ELSE UNION { PickFrom(DHA_BRANCHES[p]) : p \in PickFrom(SA_PROVINCES) }

BranchChoices(province, matching) ==
    IF province \in DOMAIN DHA_BRANCHES
    THEN IF matching
         THEN PickFrom(DHA_BRANCHES[province])
         ELSE LET other_provinces == SelectSeq(SA_PROVINCES, LAMBDA p : p # province)
              IN  UNION { PickFrom(DHA_BRANCHES[other_province]) :
                            other_province \in PickFrom(other_provinces) }
    ELSE UNION { PickFrom(DHA_BRANCHES[p]) : p \in PickFrom(SA_PROVINCES) }

\* Lines 507-515: the processing duration.
ProcessingDayChoices(valid) ==
    IF valid THEN Randint(5, 30)
    ELSE Randint(0 - 10, 0 - 1) \cup Randint(1000, 5000)

\* Lines 517-524: the day of the last update, for an application made on
\* app_date with the given duration; and the same with the invalid offset
\* drawn from 0 on (line 524 as randint(0, 30)).
LastUpdatedChoicesFromZero(app_date, processing_days, valid) ==
    IF valid
    THEN { app_date + days_after_app :
             days_after_app \in Randint(0, IF processing_days > 0
                                           THEN processing_days ELSE 30) }
    ELSE { app_date - days_before : days_before \in Randint(0, 30) }

LastUpdatedChoices(app_date, processing_days, valid) ==
    IF valid
    THEN { app_date + days_after_app :
             days_after_app \in Randint(0, IF processing_days > 0
                                           THEN processing_days ELSE 30) }
    ELSE { app_date - days_before : days_before \in Randint(1, 30) }

\* Lines 456-540: one row of the applications table.
GenerateApplication ==
    /\ pc = "app_record"
    /\ \E reference \in draws.reference :
       \/ /\ reference
          /\ population_ids = <<>>
          /\ Raise("IndexError")
          /\ UNCHANGED <<app_data, app_i, paths>>
       \/ \E link \in IF reference THEN ReferenceLinks ELSE OrphanLinks,
             app_number \in Randint(100000, 999999),
             application_type \in PickFrom(APPLICATION_TYPES),
             days_ago \in Randint(0, 1095),
             application_status \in draws.statuses,
             matching \in draws.branch_match,
             submission_channel \in PickFrom(SUBMISSION_CHANNELS),
             valid_days \in draws.valid_days,
             valid_order \in draws.valid_order :
          \E branch_name \in BranchChoices(link.province, matching),
             processing_days \in ProcessingDayChoices(valid_days) :
          \E last_updated \in
                 LastUpdatedChoices(now - days_ago, processing_days, valid_order) :
             /\ app_data' = Append(app_data,
                  [ application_id     |-> <<"APP", app_number>>,
                    sa_id_number       |-> link.sa_id_number,
                    application_type   |-> application_type,
                    application_date   |-> now - days_ago,
                    application_status |-> application_status,
                    province           |-> link.province,
                    dha_branch_name    |-> branch_name,
                    branch_code        |-> branch_codes[branch_name],
                    submission_channel |-> submission_channel,
                    processing_days    |-> processing_days,
                    last_updated_date  |-> last_updated ])
             /\ paths' = Append(paths,
                  [ orphan |-> link.orphan, matching |-> matching,
                    valid_days |-> valid_days, valid_order |-> valid_order ])
             /\ app_i' = app_i + 1
             /\ pc' = IF app_i + 1 < APPLICATION_ROWS THEN "app_record" ELSE "app_done"
             /\ UNCHANGED error
    /\ UNCHANGED <<configVars, requests, planVars, popVars, mainVars,
                   population_ids, id_to_province, branch_codes, passVars, luhnVars, runsVars>>

\* Line 545 and main line 896: the table is returned.
ReturnApplications ==
    /\ pc = "app_done"
    /\ application_df' = app_data
    /\ pc' = "app_returned"
    /\ UNCHANGED <<configVars, error, requests, planVars, popVars, population_df,
                   pop_issues, app_issues, orphan_count, appVars, passVars, luhnVars, runsVars>>

----------------------------------------------------------------------------
(* inject_application_quality_issues *)

NoApplicationIssues ==
    [ duplicate_applications |-> 0, missing_status |-> 0, province_mismatches |-> 0,
      invalid_processing_days |-> 0, invalid_dates |-> 0 ]

RowsOf(table) == 0..(Len(table) - 1)

\* Lines 562-582: the copy of the table, and the count of the sampled rows
\* whose identifier is on more than one row.
CountDuplicateApplications ==
    /\ pc = "app_returned"
    /\ df' = application_df
    /\ LET rows == Len(application_df)
           num_duplicates == IntTimesRate(rows, DUPLICATE_RATE)
           size == SampleSize(num_duplicates, rows)
           Matching(idx) ==
               { m \in RowsOf(application_df) :
                   application_df[m + 1].sa_id_number
                       = application_df[idx + 1].sa_id_number }
       IN  IF num_duplicates > 0
           THEN /\ requests' = requests \cup
                      { Request("inject_application_quality_issues.duplicate",
                                size, rows) }
                /\ IF size > rows
                   THEN /\ Raise("ValueError")
                        /\ UNCHANGED df_issues
                   ELSE /\ \E sampled \in SubsetsOfSize(RowsOf(application_df), size) :
                              df_issues' =
                                  [ NoApplicationIssues EXCEPT
                                      !.duplicate_applications =
                                          Cardinality({ idx \in sampled :
                                              Cardinality(Matching(idx)) > 1 }) ]
                        /\ pc' = "app_status"
                        /\ UNCHANGED error
           ELSE /\ df_issues' = NoApplicationIssues
                /\ pc' = "app_status"
                /\ UNCHANGED <<requests, error>>
    /\ UNCHANGED <<configVars, planVars, popVars, mainVars, appVars, turn,
                   sample_list, luhnVars, runsVars>>

\* Lines 584-591: some of the rows that have a status lose it.
RemoveStatuses ==
    /\ pc = "app_status"
    /\ LET num_missing_status == IntTimesRate(Len(df), MISSING_VALUE_RATE)
           status_indices == { idx \in RowsOf(df) : df[idx + 1].application_status # None }
           size == SampleSize(num_missing_status, Cardinality(status_indices))
       IN  IF status_indices # {}
           THEN /\ requests' = requests \cup
                      { Request("inject_application_quality_issues.missing_status",
                                size, Cardinality(status_indices)) }
                /\ IF size > Cardinality(status_indices)
                   THEN /\ Raise("ValueError")
                        /\ UNCHANGED <<df, df_issues, turn>>
                   ELSE /\ \E sampled \in SubsetsOfSize(status_indices, size) :
                              df' = [ k \in 1..Len(df) |->
                                        IF (k - 1) \in sampled
                                        THEN [df[k] EXCEPT !.application_status = None]
                                        ELSE df[k] ]
                        /\ df_issues' = [df_issues EXCEPT !.missing_status = @ + size]
                        /\ turn' = 0
                        /\ pc' = "app_mismatch"
                        /\ UNCHANGED error
           ELSE /\ turn' = 0
                /\ pc' = "app_mismatch"
                /\ UNCHANGED <<requests, error, df, df_issues>>
    /\ UNCHANGED <<configVars, planVars, popVars, mainVars, appVars, sample_list,
                   luhnVars, runsVars>>

\* Lines 594-609: one turn of the mismatch loop, on a row drawn with
\* random.randint(0, num_rows - 1).
CountMismatch ==
    /\ pc = "app_mismatch"
    /\ turn < IntTimesRate(Len(df), INVALID_VALUE_RATE)
    /\ \E idx \in RandRow(Len(df)) :
       LET province == df[idx + 1].province
           branch == df[idx + 1].dha_branch_name
           other_provinces == SelectSeq(SA_PROVINCES, LAMBDA p : p # province)
       IN  IF province \in DOMAIN DHA_BRANCHES
              /\ branch \notin Elements(DHA_BRANCHES[province])
           THEN /\ df_issues' = [df_issues EXCEPT !.province_mismatches = @ + 1]
                /\ UNCHANGED df
           ELSE IF other_provinces # <<>>
           THEN /\ \E other_province \in PickFrom(other_provinces) :
                   \E forced \in PickFrom(DHA_BRANCHES[other_province]) :
                      df' = [df EXCEPT ![idx + 1].dha_branch_name = forced]
                /\ df_issues' = [df_issues EXCEPT !.province_mismatches = @ + 1]
           ELSE UNCHANGED <<df, df_issues>>
    /\ turn' = turn + 1
    /\ UNCHANGED <<configVars, pc, error, requests, planVars, popVars, mainVars,
                   appVars, sample_list, luhnVars, runsVars>>

\* The filter of line 612, and the same without its upper limit.
IsInvalidProcessingDaysNegative(row) == row.processing_days < 0

IsInvalidProcessingDays(row) == row.processing_days < 0 \/ row.processing_days > 100

\* The filter of line 618, and the same looking only at rows with a status.
IsInvalidDateOrderWithStatus(row) ==
    row.application_status # None /\ row.last_updated_date < row.application_date

IsInvalidDateOrder(row) == row.last_updated_date < row.application_date

\* Lines 616-617: the two date columns the scan adds to every row.
WithDateColumns(table) ==
    [ k \in 1..Len(table) |->
        [ f \in DOMAIN table[k] \cup {"app_date", "updated_date"} |->
            IF f = "app_date" THEN table[k].application_date
            ELSE IF f = "updated_date" THEN table[k].last_updated_date
            ELSE table[k][f] ] ]

\* df.drop(columns=...) of line 620, and a drop that removes nothing.
DropColumnsNone(table, columns) == table

DropColumns(table, columns) ==
    [ k \in 1..Len(table) |-> [ f \in DOMAIN table[k] \ columns |-> table[k][f] ] ]

\* Lines 611-622 and main line 900: the two counts made by scanning the
\* table (line 618 compares the two added columns, which hold the dates of
\* last_updated_date and application_date), and the return of the table
\* without the added columns and of the statistics.
ReturnApplicationIssues ==
    /\ pc = "app_mismatch"
    /\ turn >= IntTimesRate(Len(df), INVALID_VALUE_RATE)
    /\ LET invalid_days ==
               { idx \in RowsOf(df) : IsInvalidProcessingDays(df[idx + 1]) }
           invalid_dates ==
               { idx \in RowsOf(df) : IsInvalidDateOrder(df[idx + 1]) }
       IN  app_issues' = [ df_issues EXCEPT
                             !.invalid_processing_days = Cardinality(invalid_days),
                             !.invalid_dates = Cardinality(invalid_dates) ]
    /\ application_df' = DropColumns(WithDateColumns(df), {"app_date", "updated_date"})
    /\ pc' = "issues_returned"
    /\ UNCHANGED <<configVars, error, requests, planVars, popVars, population_df,
                   pop_issues, orphan_count, appVars, passVars, luhnVars, runsVars>>

----------------------------------------------------------------------------
(* print_summary_statistics *)

IdentifiersOf(table) == { table[k].sa_id_number : k \in 1..Len(table) }

\* The difference app_ids - pop_ids of line 819, and the same with the
\* registry's identifiers left in.
OrphanIdentifiersAll(app_ids, pop_ids) == app_ids

OrphanIdentifiers(app_ids, pop_ids) == app_ids \ pop_ids

\* Lines 816-820 and main line 910: the orphan count.
PrintSummary ==
    /\ pc = "issues_returned"
    /\ LET pop_ids == IdentifiersOf(population_df)
           app_ids == IdentifiersOf(application_df)
       IN  orphan_count' = Cardinality(OrphanIdentifiers(app_ids, pop_ids))
    /\ pc' = "done"
    /\ UNCHANGED <<configVars, error, requests, planVars, popVars, population_df,
                   pop_issues, application_df, app_issues, appVars, passVars,
                   luhnVars, runsVars>>

----------------------------------------------------------------------------
(* inject_population_quality_issues *)

\* random.sample(range(n), k) as the list it is: k distinct indices in the
\* order drawn.
OrderedSamples(S, k) ==
    { seq \in [1..k -> S] : \A a, b \in 1..k : a # b => seq[a] # seq[b] }

\* The five loops of the function, in order, and the turns each takes.
PopulationPasses ==
    << "pass_duplicates", "pass_missing", "pass_formatting", "pass_postal",
       "pass_future", "pass_return" >>

PassTurns(pass) ==
    CASE pass = "pass_duplicates" -> Len(sample_list)
      [] pass = "pass_missing"    -> IntTimesRate(Len(df), MISSING_VALUE_RATE)
      [] pass = "pass_formatting" -> IntTimesRateTwice(Len(df), INVALID_VALUE_RATE)
      [] pass = "pass_postal"     -> IntTimesRate(Len(df), INVALID_VALUE_RATE)
      [] pass = "pass_future"     -> IntTimesRate(Len(df), INVALID_VALUE_RATE)
      [] OTHER -> 0

\* Lines 342-358: the copy of the table and the sample of rows to duplicate.
StartPopulationIssues ==
    /\ pc = "pop_returned"
    /\ caller = "two_step"
    /\ df' = population_df
    /\ df_issues' = NoIssues
    /\ turn' = 0
    /\ LET rows == Len(population_df)
           num_duplicates == IntTimesRate(rows, DUPLICATE_RATE)
           size == SampleSize(num_duplicates, rows)
       IN  IF num_duplicates > 0
           THEN /\ requests' = requests \cup
                      { Request("inject_population_quality_issues.duplicate",
                                size, rows) }
                /\ IF size > rows
                   THEN /\ Raise("ValueError")
                        /\ UNCHANGED sample_list
                   ELSE /\ sample_list' \in OrderedSamples(RowsOf(population_df), size)
                        /\ pc' = "pass_duplicates"
                        /\ UNCHANGED error
           ELSE /\ sample_list' = <<>>
                /\ pc' = "pass_duplicates"
                /\ UNCHANGED <<requests, error>>
    /\ UNCHANGED <<configVars, planVars, popVars, mainVars, appVars, luhnVars, runsVars>>

\* The end of one loop: the next one starts.
NextPass ==
    /\ \E k \in 1..5 :
          /\ pc = PopulationPasses[k]
          /\ turn >= PassTurns(pc)
          /\ pc' = PopulationPasses[k + 1]
    /\ turn' = 0
    /\ UNCHANGED <<configVars, error, requests, planVars, popVars, mainVars,
                   appVars, df, df_issues, sample_list, luhnVars, runsVars>>

\* Lines 359-363: one sampled row takes the identifier of another row.
InjectDuplicate ==
    /\ pc = "pass_duplicates"
    /\ turn < PassTurns(pc)
    /\ LET idx == sample_list[turn + 1]
           candidates == SourceCandidates(RowsOf(df), idx)
       IN  \/ /\ candidates = {}
              /\ Raise("IndexError")
              /\ UNCHANGED <<df, df_issues, turn>>
           \/ /\ \E source_idx \in candidates :
                    df' = [df EXCEPT ![idx + 1].sa_id_number =
                                         df[source_idx + 1].sa_id_number]
              /\ df_issues' = [df_issues EXCEPT !.duplicates = @ + 1]
              /\ turn' = turn + 1
              /\ UNCHANGED <<pc, error>>
    /\ UNCHANGED <<configVars, requests, planVars, popVars, mainVars, appVars,
                   sample_list, luhnVars, runsVars>>

\* Lines 369-374: a field of a row drawn at random is removed if present.
InjectMissing ==
    /\ pc = "pass_missing"
    /\ turn < PassTurns(pc)
    /\ \E idx \in RandRow(Len(df)), field \in draws.missing_fields :
          IF df[idx + 1][field] # None
          THEN /\ df' = [df EXCEPT ![idx + 1][field] = None]
               /\ df_issues' = [df_issues EXCEPT !.missing_values = @ + 1]
          ELSE UNCHANGED <<df, df_issues>>
    /\ turn' = turn + 1
    /\ UNCHANGED <<configVars, pc, error, requests, planVars, popVars, mainVars,
                   appVars, sample_list, luhnVars, runsVars>>

\* Lines 379-398: the first name or the cell number of a row drawn at random
\* is written another way; str(None) starts with neither prefix.
InjectFormatting ==
    /\ pc = "pass_formatting"
    /\ turn < PassTurns(pc)
    /\ \E idx \in RandRow(Len(df)), issue_type \in draws.formatting_types,
          upper \in draws.upper :
          IF issue_type = "name_case"
          THEN df' = [df EXCEPT ![idx + 1].first_name =
                                    IF upper THEN Upper(@) ELSE Lower(@)]
          ELSE df' = [df EXCEPT ![idx + 1].cell_number = TogglePhoneFormat(@)]
    /\ df_issues' = [df_issues EXCEPT !.inconsistent_formatting = @ + 1]
    /\ turn' = turn + 1
    /\ UNCHANGED <<configVars, pc, error, requests, planVars, popVars, mainVars,
                   appVars, sample_list, luhnVars, runsVars>>

\* Lines 403-414: the postal code of a row drawn at random is replaced if
\* present.
InjectInvalidPostal ==
    /\ pc = "pass_postal"
    /\ turn < PassTurns(pc)
    /\ \E idx \in RandRow(Len(df)), invalid_code \in draws.invalid_postal :
          IF df[idx + 1].postal_code # None
          THEN /\ df' = [df EXCEPT ![idx + 1].postal_code = invalid_code]
               /\ df_issues' = [df_issues EXCEPT !.invalid_postal_codes = @ + 1]
          ELSE UNCHANGED <<df, df_issues>>
    /\ turn' = turn + 1
    /\ UNCHANGED <<configVars, pc, error, requests, planVars, popVars, mainVars,
                   appVars, sample_list, luhnVars, runsVars>>

\* Lines 419-424: the creation date of a row drawn at random moves 1 to 30
\* days past now.
InjectFutureDate ==
    /\ pc = "pass_future"
    /\ turn < PassTurns(pc)
    /\ \E idx \in RandRow(Len(df)), future_days \in Randint(1, 30) :
          df' = [df EXCEPT ![idx + 1].record_created_date = now + future_days]
    /\ df_issues' = [df_issues EXCEPT !.future_dates = @ + 1]
    /\ turn' = turn + 1
    /\ UNCHANGED <<configVars, pc, error, requests, planVars, popVars, mainVars,
                   appVars, sample_list, luhnVars, runsVars>>

\* Line 426: the table and the statistics are returned to the caller.
ReturnPopulationIssues ==
    /\ pc = "pass_return"
    /\ population_df' = df
    /\ pop_issues' = df_issues
    /\ pc' = "done"
    /\ UNCHANGED <<configVars, error, requests, planVars, popVars, application_df,
                   app_issues, orphan_count, appVars, passVars, luhnVars, runsVars>>

Next ==
    \/ PlanAnomalies
    \/ DrawRecord
    \/ RedrawIdentifier
    \/ FinishRecord
    \/ ApplyDuplicate
    \/ ReturnPopulation
    \/ StartApplications
    \/ GenerateApplication
    \/ ReturnApplications
    \/ CountDuplicateApplications
    \/ RemoveStatuses
    \/ CountMismatch
    \/ ReturnApplicationIssues
    \/ PrintSummary
    \/ StartPopulationIssues
    \/ NextPass
    \/ InjectDuplicate
    \/ InjectMissing
    \/ InjectFormatting
    \/ InjectInvalidPostal
    \/ InjectFutureDate
    \/ ReturnPopulationIssues

Spec == Init /\ [][Next]_vars

----------------------------------------------------------------------------
(* calculate_luhn_checksum on its own *)

\* The 12-digit strings the checksum is applied to: a date part followed by
\* six digits among those that double below, at and above 9.
LuhnInputs ==
    { date_part(d) \o tail :
        d \in { <<1985, 6, 15>>, <<1944, 1, 1>>, <<2006, 12, 28>>, <<1999, 9, 9>> },
        tail \in [1..6 -> {0, 4, 5, 9}] }

InitLuhn ==
    /\ now = toordinal(<<2025, 1, 1>>)
    /\ draws = DrawsPlanner
    /\ caller = "main"
    /\ POPULATION_ROWS = 0 /\ APPLICATION_ROWS = 0
    /\ DUPLICATE_RATE = RateZero /\ MISSING_VALUE_RATE = RateZero
    /\ INVALID_VALUE_RATE = RateZero
    /\ InitLocals
    /\ pc = "luhn_call"
    /\ number \in LuhnInputs
    /\ checksum = None
    /\ NoRuns

\* Lines 90-97: the function applied to its argument.
ApplyLuhn ==
    /\ pc = "luhn_call"
    /\ checksum' = calculate_luhn_checksum(number)
    /\ pc' = "luhn_returned"
    /\ UNCHANGED <<configVars, error, requests, planVars, data, id_numbers,
                   id_list, issues, i, recordVars, dup_pos, mainVars, appVars, passVars,
                   number, runsVars>>

NextLuhn == ApplyLuhn

SpecLuhn == InitLuhn /\ [][NextLuhn]_vars

----------------------------------------------------------------------------
(* Claims *)

LuhnDoubled(d) == IF 2 * d > 9 THEN 2 * d - 9 ELSE 2 * d

\* S of claim C1: the digits at the 0-based indices 11, 9, 7, 5, 3, 1 doubled
\* (less 9 above 9), the others as they are, added up.
LuhnWeightedSum(digits) ==
    SumSeq([ j \in 1..12 |->
               IF (j - 1) \in {11, 9, 7, 5, 3, 1} THEN LuhnDoubled(digits[j])
               ELSE digits[j] ])

\* C1: for a 12-digit string, calculate_luhn_checksum returns
\* (10 - (S mod 10)) mod 10 with S the weighted digit sum; the result is a
\* single digit, and 0 when S mod 10 = 0.
C1_LuhnChecksum ==
    pc = "luhn_returned" =>
        LET S == LuhnWeightedSum(number)
        IN  /\ Len(number) = 12
            /\ checksum = (10 - (S % 10)) % 10
            /\ checksum \in 0..9
            /\ (S % 10 = 0 => checksum = 0)

\* C1's case: a string with a doubled 9 whose weighted sum ends in 0.
C1_Witness ==
    /\ pc = "luhn_returned"
    /\ LuhnWeightedSum(number) % 10 = 0
    /\ number[12] = 9
    /\ checksum = 0

\* Where population_df is held: from generate_population_data's return on;
\* the two-step caller replaces it at the end with the follow-up pass's table.
PopulationHeld ==
    pc \in { "pop_returned", "app_record", "app_done", "app_returned", "app_status",
             "app_mismatch", "issues_returned", "done", "pass_duplicates",
             "pass_missing", "pass_formatting", "pass_postal", "pass_future",
             "pass_return" }
GeneratedPopulationHeld == PopulationHeld /\ ~(caller = "two_step" /\ pc = "done")

\* The population tables generate_population_data has made so far.
PopulationTables == { data } \cup (IF GeneratedPopulationHeld THEN { population_df } ELSE {})

WellFormedIdentifier(id) ==
    /\ Len(id) = 13
    /\ \A k \in 1..13 : id[k] \in 0..9
    /\ id[13] = calculate_luhn_checksum(SubSeq(id, 1, 12))

\* C2: every identifier of the final population table and of the final
\* applications table (overwritten by a duplicate pass, referenced or orphan)
\* has 13 digits, the 13th being calculate_luhn_checksum of the first 12.
\* The tables are looked at where each generator returns and at the end.
C2_IdentifiersWellFormed ==
    LET WellFormed(table) ==
            \A k \in 1..Len(table) : WellFormedIdentifier(table[k].sa_id_number)
    IN  /\ pc = "pop_returned" => WellFormed(population_df)
        /\ pc = "app_returned" => WellFormed(application_df)
        /\ pc = "done" =>
               /\ WellFormed(population_df)
               /\ caller = "main" => WellFormed(application_df) /\ WellFormed(df)

\* C2's case: the run is over, a registry record carries an identifier it
\* was not issued, and an application was made on the orphan path.
C2_Witness ==
    /\ pc = "done"
    /\ caller = "main"
    /\ \E k \in 1..Len(id_list) :
          population_df[id_list[k][1] + 1].sa_id_number # id_list[k][2]
    /\ \E k \in 1..Len(paths) : paths[k].orphan

\* YYMMDD of a date_of_birth text: its year's last two digits, month, day.
BirthDatePart(text) == SubSeq(text[1], 3, 4) \o text[2] \o text[3]

EncodesOwnBirthDate(record) ==
    SubSeq(record.sa_id_number, 1, 6) = BirthDatePart(record.date_of_birth)

\* C3 as stated: in the table generate_population_data returns, every
\* record's identifier starts with the record's own birth date as YYMMDD.
C3_Original ==
    pc = "pop_returned" =>
        \A k \in 1..Len(population_df) : EncodesOwnBirthDate(population_df[k])

\* C3 as amended: every record whose index is not duplicate-selected has an
\* identifier that starts with its own birth date as YYMMDD, whatever other
\* defect it carries; a duplicate-selected record's identifier starts with
\* the birth date of some record of the table.
C3_BirthDateEncoded ==
    \A table \in PopulationTables :
        \A k \in 1..Len(table) :
            IF (k - 1) \notin duplicate_indices
            THEN EncodesOwnBirthDate(table[k])
            ELSE \E m \in 1..Len(table) :
                    SubSeq(table[k].sa_id_number, 1, 6)
                        = BirthDatePart(table[m].date_of_birth)

\* C3's case: a returned table in which a duplicate-selected record carries
\* another birth date than its own, next to a record that was not selected.
C3_Witness ==
    /\ pc = "pop_returned"
    /\ \E k \in 1..Len(population_df) :
          (k - 1) \in duplicate_indices /\ ~EncodesOwnBirthDate(population_df[k])
    /\ \E k \in 1..Len(population_df) : (k - 1) \notin duplicate_indices

AllDistinct(table) == Cardinality(IdentifiersOf(table)) = Len(table)

\* C4: during the generation loop and at its end, before the duplicate pass,
\* the identifiers of the records are pairwise distinct, all N of them at the
\* end; with duplicate_rate = 0 the returned table has N distinct identifiers.
C4_UniqueBeforeDuplicates ==
    /\ pc \in {"pop_record", "pop_unique"} => AllDistinct(data)
    /\ pc = "pop_dups" /\ dup_pos = 1 => AllDistinct(data) /\ Len(data) = num_rows
    /\ pc = "pop_returned" /\ duplicate_rate[1] = 0 =>
           /\ Len(population_df) = num_rows
           /\ Cardinality(IdentifiersOf(population_df)) = num_rows

\* C4's case: a table returned with duplicate_rate = 0 in which two records
\* share a birth date, so that the second could have drawn the first's
\* identifier.
C4_Witness ==
    /\ pc = "pop_returned"
    /\ duplicate_rate[1] = 0
    /\ \E k, m \in 1..Len(population_df) :
          k # m /\ population_df[k].date_of_birth = population_df[m].date_of_birth

\* floor(n * factor * rate), the rate being the fraction rate[1] / rate[2].
FloorOf(n, factor, rate) == (n * factor * rate[1]) \div rate[2]

\* The five anomaly categories: index set, factor on the count, rate.
Categories ==
    { <<duplicate_indices, 1, duplicate_rate>>,
      <<missing_indices, 1, missing_rate>>,
      <<invalid_postal_indices, 1, invalid_rate>>,
      <<future_date_indices, 1, invalid_rate>>,
      <<formatting_indices, 2, invalid_rate>> }

\* C5: once the anomalies are planned, each of the five index sets is a set
\* of distinct indices of 0..N-1 of size min(floor(N * rate), N), the
\* formatting set with invalid_rate * 2, and is empty when the floor is 0.
C5_IndexSets ==
    pc \notin {"pop_plan", "luhn_call", "luhn_returned"} =>
        \A c \in Categories :
            /\ c[1] \subseteq 0..(num_rows - 1)
            /\ Cardinality(c[1]) = Min(FloorOf(num_rows, c[2], c[3]), num_rows)
            /\ FloorOf(num_rows, c[2], c[3]) = 0 => c[1] = {}

\* C5's case: a plan for two rows in which the formatting count 4 was cut
\* to 2, the missing set holds one index of two and the duplicate set none.
C5_Witness ==
    /\ pc = "pop_record"
    /\ num_rows = 2
    /\ FloorOf(num_rows, 2, invalid_rate) = 4
    /\ Cardinality(formatting_indices) = 2
    /\ Cardinality(missing_indices) = 1
    /\ duplicate_indices = {}

\* C6: each statistic generate_population_data returns equals the size of
\* the matching index set, which is min(floor(N * rate), N) and so at most N.
C6_IssueCounts ==
    pc = "pop_returned" =>
        /\ pop_issues.duplicates = Cardinality(duplicate_indices)
        /\ pop_issues.missing_values = Cardinality(missing_indices)
        /\ pop_issues.invalid_postal_codes = Cardinality(invalid_postal_indices)
        /\ pop_issues.future_dates = Cardinality(future_date_indices)
        /\ pop_issues.inconsistent_formatting = Cardinality(formatting_indices)
        /\ pop_issues.duplicates = Min(FloorOf(num_rows, 1, duplicate_rate), num_rows)
        /\ pop_issues.missing_values = Min(FloorOf(num_rows, 1, missing_rate), num_rows)
        /\ pop_issues.invalid_postal_codes = Min(FloorOf(num_rows, 1, invalid_rate), num_rows)
        /\ pop_issues.future_dates = Min(FloorOf(num_rows, 1, invalid_rate), num_rows)
        /\ pop_issues.inconsistent_formatting
               = Min(FloorOf(num_rows, 2, invalid_rate), num_rows)
        /\ \A f \in DOMAIN pop_issues : pop_issues[f] <= num_rows

\* C6's case: a returned table whose formatting indices drew both kinds of
\* formatting, with duplicates counted as well.
C6_Witness ==
    /\ pc = "pop_returned"
    /\ pop_issues.duplicates > 0
    /\ pop_issues.inconsistent_formatting = 2
    /\ \E a, b \in formatting_indices :
          formatting_types[a] = "name_case" /\ formatting_types[b] = "phone_format"

\* C7: every call of random.sample, in generate_population_data, in
\* inject_population_quality_issues and in inject_application_quality_issues,
\* asks for no more than the population it samples from holds, so none raises
\* ValueError.
C7_SampleSizesClamped ==
    /\ \A r \in requests : r.size <= r.population
    /\ error # "ValueError"

\* C7's case: the statuses were removed from every row that had one although
\* more were asked for, after a formatting count twice the registry's size.
C7_Witness ==
    /\ \E r \in requests :
          /\ r.site = "inject_application_quality_issues.missing_status"
          /\ r.size = r.population
          /\ IntTimesRate(Len(df), MISSING_VALUE_RATE) > r.population
    /\ \E r \in requests :
          /\ r.site = "generate_population_data.formatting"
          /\ r.size = r.population
          /\ IntTimesRateTwice(num_rows, invalid_rate) > r.population

\* The duplicate-selected record that the pass has just overwritten.
LastOverwritten == id_list[dup_pos - 1][1]

SharesIdentifier(table, idx) ==
    \E k \in 1..Len(table) :
        k # idx + 1 /\ table[k].sa_id_number = table[idx + 1].sa_id_number

\* C8: a record of the table is overwritten only by the duplicate pass, which
\* runs when all N records have been generated; each of its turns takes the
\* next duplicate-selected index and gives that record the identifier held
\* at that moment by a record at another index, and nothing else changes in
\* the table; the pass has taken every selected index when the table is
\* returned.
C8_DuplicatePass ==
    [][ /\ (  dup_pos' # dup_pos
           \/ \E k \in 1..Len(data) : Len(data') < k \/ data'[k] # data[k] ) =>
               /\ pc = "pop_dups"
               /\ Len(data) = num_rows
               /\ dup_pos' = dup_pos + 1
               /\ LET dup_idx == id_list[dup_pos][1]
                  IN  /\ dup_idx \in duplicate_indices
                      /\ \E source_idx \in (0..(num_rows - 1)) \ {dup_idx} :
                            data' = [data EXCEPT ![dup_idx + 1].sa_id_number =
                                                     data[source_idx + 1].sa_id_number]
        /\ (pc' = "pop_returned" /\ pc # "pop_returned") =>
               /\ dup_pos = Cardinality(duplicate_indices) + 1
               /\ { id_list[k][1] : k \in 1..Len(id_list) } = duplicate_indices
      ]_vars

\* C8's case: the pass has overwritten two records, the second with an
\* identifier that its source had itself received from the pass.
C8_Witness ==
    /\ pc = "pop_dups"
    /\ dup_pos = 3
    /\ data[LastOverwritten + 1].sa_id_number # id_list[2][2]
    /\ data[LastOverwritten + 1].sa_id_number = data[id_list[1][1] + 1].sa_id_number
    /\ data[id_list[1][1] + 1].sa_id_number # id_list[1][2]
    /\ Cardinality(IdentifiersOf(data)) = 1

\* C9 as stated: the returned table holds exactly N - D distinct identifiers
\* and every duplicate-selected record shares its identifier with another
\* record of that table.
C9_Original ==
    pc = "pop_returned" =>
        /\ Cardinality(IdentifiersOf(population_df))
               = num_rows - FloorOf(num_rows, 1, duplicate_rate)
        /\ \A dup_idx \in duplicate_indices : SharesIdentifier(population_df, dup_idx)

\* C9 as amended: with D = floor(N * duplicate_rate) duplicate-selected
\* indices the returned table holds at least N - D and at most N distinct
\* identifiers, at most N - 1 when D >= 1 and exactly N - D when D <= 1;
\* each duplicate-selected record shares its identifier with another record
\* right after its own overwrite, so the last one overwritten does so in the
\* returned table.
C9_DistinctAfterDuplicates ==
    LET D == FloorOf(num_rows, 1, duplicate_rate)
    IN  /\ pc = "pop_returned" =>
               LET distinct == Cardinality(IdentifiersOf(population_df))
               IN  /\ Cardinality(duplicate_indices) = D
                   /\ distinct >= num_rows - D
                   /\ distinct <= num_rows
                   /\ D >= 1 => distinct <= num_rows - 1
                   /\ D <= 1 => distinct = num_rows - D
                   /\ D >= 1 => SharesIdentifier(population_df, LastOverwritten)
        /\ pc = "pop_dups" /\ dup_pos > 1 => SharesIdentifier(data, LastOverwritten)

\* C9's case: a returned table in which a duplicate-selected record is alone
\* with its identifier and more than N - D identifiers are left.
C9_Witness ==
    /\ pc = "pop_returned"
    /\ \E dup_idx \in duplicate_indices : ~SharesIdentifier(population_df, dup_idx)
    /\ Cardinality(IdentifiersOf(population_df))
           > num_rows - FloorOf(num_rows, 1, duplicate_rate)

\* C10: every identifier made on the orphan path of generate_application_data
\* is absent from the identifiers of the population table.
C10_OrphanAbsent ==
    \A k \in 1..Len(app_data) :
        paths[k].orphan => app_data[k].sa_id_number \notin IdentifiersOf(population_df)

\* The rows of the applications table that were made on the orphan path.
OrphanPathRows == { k \in 1..Len(paths) : paths[k].orphan }

\* C11: the orphan count of the summary is the number of distinct
\* identifiers of the final applications table that no row of the final
\* population table carries, and is at most the number of application rows
\* made on the orphan path.
C11_OrphanCount ==
    pc = "done" /\ caller = "main" =>
        /\ orphan_count =
               Cardinality({ id \in { application_df[k].sa_id_number :
                                        k \in 1..Len(application_df) } :
                   \A m \in 1..Len(population_df) :
                       population_df[m].sa_id_number # id })
        /\ orphan_count <= Cardinality(OrphanPathRows)

\* C11's case: two rows were made on the orphan path and the count is 1,
\* the two sharing an identifier or one of them carrying a registry one.
C11_Witness ==
    /\ pc = "done"
    /\ caller = "main"
    /\ Len(population_df) >= 1
    /\ Cardinality(OrphanPathRows) = 2
    /\ orphan_count = 1

----------------------------------------------------------------------------
(* Two runs of main with one configuration and one seed *)

(***************************************************************************)
(* Run 1 and run 2 execute on the days run_now[1] and run_now[2].  The     *)
(* seed is the same (lines 51-53), so each random call returns in both     *)
(* runs the same end of its range: the draws are chosen once per row and   *)
(* used by both.  The rows hold the columns that are computed from         *)
(* datetime.now(); every other column comes from the seeded generators     *)
(* alone.                                                                  *)
(***************************************************************************)

\* random.randint(lo, hi) of a seeded generator: the end it returns.
SeededRandint(end, lo, hi) == IF end = "lo" THEN lo ELSE hi

\* Lines 282-292: record_created_date on the day today.
record_created_date(today, dob, in_future_date_indices, end) ==
    LET min_created_date == toordinal(dob) + 365
        max_created_date == today
        days_diff == max_created_date - min_created_date
    IN  IF in_future_date_indices
        THEN today + SeededRandint(end, 1, 30)
        ELSE min_created_date + SeededRandint(end, 0, days_diff)

\* Lines 482-484: the application date on the day today.
application_date(today, end) == today - SeededRandint(end, 0, 1095)

\* Lines 517-526: the date of the last update.
last_updated_date(app_date, processing_days, valid, end) ==
    IF valid
    THEN app_date + SeededRandint(end, 0, IF processing_days > 0
                                          THEN processing_days ELSE 30)
    ELSE app_date - SeededRandint(end, 1, 30)

RunDays == { toordinal(<<2025, 1, 1>>), toordinal(<<2025, 1, 2>>) }

InitRuns ==
    /\ now = toordinal(<<2025, 1, 1>>)
    /\ draws = DrawsPlanner
    /\ caller = "main"
    /\ POPULATION_ROWS \in 0..MaxRunRows /\ APPLICATION_ROWS \in 0..MaxRunRows
    /\ DUPLICATE_RATE = RateZero /\ MISSING_VALUE_RATE = RateZero
    /\ INVALID_VALUE_RATE \in {RateZero, RateOne}
    /\ InitLocals
    /\ number = <<>> /\ checksum = None
    /\ run_now \in [1..2 -> RunDays]
    /\ run_population = [r \in 1..2 |-> <<>>]
    /\ run_applications = [r \in 1..2 |-> <<>>]
    /\ pc = "runs_population"

\* Lines 200-311 in both runs: one record, its dates.
RunsFinishRecord ==
    /\ pc = "runs_population"
    /\ Len(run_population[1]) < POPULATION_ROWS
    /\ \E dob \in { <<1985, 6, 15>>, <<2000, 12, 28>> }, end \in {"lo", "hi"} :
          run_population' =
              [ r \in 1..2 |->
                  Append(run_population[r],
                      [ date_of_birth |-> strftime_ymd(dob),
                        record_created_date |->
                            record_created_date(run_now[r], dob,
                                                INVALID_VALUE_RATE = RateOne, end) ]) ]
    /\ UNCHANGED <<configVars, pc, error, requests, planVars, popVars, mainVars,
                   appVars, passVars, luhnVars, run_now, run_applications>>

\* Main lines 880-896: the registry is returned, application generation starts.
RunsStartApplications ==
    /\ pc = "runs_population"
    /\ Len(run_population[1]) = POPULATION_ROWS
    /\ pc' = "runs_applications"
    /\ UNCHANGED <<configVars, error, requests, planVars, popVars, mainVars,
                   appVars, passVars, luhnVars, runsVars>>

\* Lines 456-540 in both runs: one application, its dates.
RunsGenerateApplication ==
    /\ pc = "runs_applications"
    /\ Len(run_applications[1]) < APPLICATION_ROWS
    /\ \E days_end \in {"lo", "hi"}, valid \in BOOLEAN :
          run_applications' =
              [ r \in 1..2 |->
                  LET app_date == application_date(run_now[r], days_end)
                  IN  Append(run_applications[r],
                          [ application_date  |-> app_date,
                            processing_days   |-> 5,
                            last_updated_date |->
                                last_updated_date(app_date, 5, valid, "hi") ]) ]
    /\ UNCHANGED <<configVars, pc, error, requests, planVars, popVars, mainVars,
                   appVars, passVars, luhnVars, run_now, run_population>>

\* Main line 896 on: both tables are finished.
RunsReturn ==
    /\ pc = "runs_applications"
    /\ Len(run_applications[1]) = APPLICATION_ROWS
    /\ pc' = "runs_done"
    /\ UNCHANGED <<configVars, error, requests, planVars, popVars, mainVars,
                   appVars, passVars, luhnVars, runsVars>>

NextRuns ==
    \/ RunsFinishRecord
    \/ RunsStartApplications
    \/ RunsGenerateApplication
    \/ RunsReturn

SpecRuns == InitRuns /\ [][NextRuns]_vars

\* C12: two runs with the same configuration and the same seed end with the
\* same population table and the same applications table, whatever days
\* they run on.
C12_SameTables ==
    pc = "runs_done" =>
        /\ run_population[1] = run_population[2]
        /\ run_applications[1] = run_applications[2]

----------------------------------------------------------------------------
(* The statistics of inject_application_quality_issues *)

\* The pass has returned its table and its statistics to main.
ApplicationIssuesReturned == caller = "main" /\ pc \in {"issues_returned", "done"}

RowsWhere(table, P(_)) == Cardinality({ k \in 1..Len(table) : P(table[k]) })

\* C13: missing_status equals the number of rows of the returned
\* applications table whose application_status is absent.
C13_MissingStatusCount ==
    ApplicationIssuesReturned =>
        app_issues.missing_status
            = RowsWhere(application_df, LAMBDA row : row.application_status = None)

BranchOutsideProvince(row) ==
    row.dha_branch_name \notin Elements(DHA_BRANCHES[row.province])

\* C14: province_mismatches equals the number of rows of the returned
\* applications table whose branch is not one of the row's province.
C14_ProvinceMismatchCount ==
    ApplicationIssuesReturned =>
        app_issues.province_mismatches
            = RowsWhere(application_df, BranchOutsideProvince)

\* C15: duplicate_applications equals the number of rows of the
\* applications table whose identifier is on more than one row.
C15_DuplicateApplicationsCount ==
    ApplicationIssuesReturned =>
        app_issues.duplicate_applications
            = Cardinality({ k \in 1..Len(application_df) :
                  \E m \in 1..Len(application_df) :
                      m # k /\ application_df[m].sa_id_number
                                   = application_df[k].sa_id_number })

\* The workbook's criterion for the average of the valid durations:
\* processing_days > 0 and <= 100.
AverageValidCriterion(row) == row.processing_days > 0 /\ row.processing_days <= 100

\* C16: invalid_processing_days equals the number of rows made on the
\* invalid-duration path; each of them has a duration outside 5..30, is
\* counted invalid (< 0 or > 100) and is left out of the workbook's average
\* of valid durations; each other row has a duration in 5..30, is not
\* counted and is taken into that average.
C16_InvalidProcessingDays ==
    ApplicationIssuesReturned =>
        /\ app_issues.invalid_processing_days
               = Cardinality({ k \in 1..Len(paths) : ~paths[k].valid_days })
        /\ \A k \in 1..Len(application_df) :
              LET row == application_df[k]
                  counted == row.processing_days < 0 \/ row.processing_days > 100
              IN  IF paths[k].valid_days
                  THEN /\ row.processing_days \in 5..30
                       /\ ~counted
                       /\ AverageValidCriterion(row)
                  ELSE /\ row.processing_days \notin 5..30
                       /\ counted
                       /\ ~AverageValidCriterion(row)

\* C16's case: a returned table with a negative duration and an extreme
\* one, both counted.
C16_Witness ==
    /\ ApplicationIssuesReturned
    /\ Len(application_df) = 2
    /\ application_df[1].processing_days < 0
    /\ application_df[2].processing_days > 100
    /\ app_issues.invalid_processing_days = 2

\* C17: invalid_dates equals the number of rows whose last update is
\* strictly earlier than the application, which are the rows made on the
\* invalid-ordering path, 1 to 30 days earlier; the status of a row, absent
\* from generation or removed by the pass, plays no part.
C17_InvalidDates ==
    ApplicationIssuesReturned =>
        /\ app_issues.invalid_dates
               = RowsWhere(application_df,
                           LAMBDA row : row.last_updated_date < row.application_date)
        /\ app_issues.invalid_dates
               = Cardinality({ k \in 1..Len(paths) : ~paths[k].valid_order })
        /\ \A k \in 1..Len(application_df) :
              LET row == application_df[k]
              IN  IF paths[k].valid_order
                  THEN row.last_updated_date >= row.application_date
                  ELSE row.application_date - row.last_updated_date \in 1..30

\* C17's case: of two counted rows, one was generated without a status and
\* the other lost its status in the pass.
C17_Witness ==
    /\ ApplicationIssuesReturned
    /\ app_issues.invalid_dates = 2
    /\ app_data[1].application_status = None
    /\ app_data[2].application_status # None
    /\ application_df[2].application_status = None
    /\ ~paths[1].valid_order /\ ~paths[2].valid_order

----------------------------------------------------------------------------
(* The order of main *)

\* The stages of main: 1 registry generation, 2 registry returned, 3
\* application generation, 4 applications returned, 5 follow-up pass, 6
\* statistics returned, 7 summary printed; 8 is a run ended by an exception.
Stage(at) ==
    CASE at \in {"pop_plan", "pop_record", "pop_unique", "pop_dups"} -> 1
      [] at = "pop_returned" -> 2
      [] at \in {"app_record", "app_done"} -> 3
      [] at = "app_returned" -> 4
      [] at \in {"app_status", "app_mismatch"} -> 5
      [] at = "issues_returned" -> 6
      [] at = "done" -> 7
      [] OTHER -> 8

\* C18: main goes through its stages in order, skipping none: the registry
\* is complete, duplicate pass included, when application generation
\* starts; the applications are complete when the follow-up pass starts;
\* the summary comes last.  Registry rows are written only by registry
\* generation and, from its return on, the population table is never
\* changed; application rows are written only by application generation.
C18_StageOrder ==
    [][ caller = "main" =>
          /\ Stage(pc') \in {Stage(pc), Stage(pc) + 1, 8}
          /\ Stage(pc) = 2 /\ Stage(pc') = 3 =>
                /\ Len(population_df) = num_rows
                /\ dup_pos = Cardinality(duplicate_indices) + 1
                /\ population_df = data
          /\ Stage(pc) = 4 /\ Stage(pc') = 5 =>
                /\ Len(application_df) = APPLICATION_ROWS
                /\ application_df = app_data
          /\ Stage(pc) \in 2..7 => population_df' = population_df
          /\ data' # data => Stage(pc) = 1
          /\ app_data' # app_data => Stage(pc) = 3
      ]_vars

\* C18's case: the run is over; the registry went through its duplicate
\* pass, applications were generated from it and the follow-up pass removed
\* a status.
C18_Witness ==
    /\ pc = "done"
    /\ caller = "main"
    /\ dup_pos > 1
    /\ population_df = data
    /\ Len(application_df) >= 1
    /\ \E k \in 1..Len(application_df) :
          application_df[k].application_status # app_data[k].application_status

----------------------------------------------------------------------------
(* generate_sa_id_number alone *)

\* The birth dates and the draws the function is applied to.
IdentifierDates ==
    { <<y, m, d>> : y \in {1944, 1980, 1999, 2000, 2006}, m \in {1, 6, 12},
                    d \in {1, 15, 28} }
IdentifierSequences ==
    { 0, 1, 5, 9, 10, 45, 99, 100, 999, 1000, 1234, 4321, 5050, 5555, 6789, 9090,
      9998, 9999 }

InitIdentifier ==
    /\ now = toordinal(<<2025, 1, 1>>)
    /\ draws = DrawsPlanner
    /\ caller = "main"
    /\ POPULATION_ROWS = 0 /\ APPLICATION_ROWS = 0
    /\ DUPLICATE_RATE = RateZero /\ MISSING_VALUE_RATE = RateZero
    /\ INVALID_VALUE_RATE = RateZero
    /\ error = None /\ requests = {}
    /\ duplicate_indices = {} /\ missing_indices = {}
    /\ invalid_postal_indices = {} /\ future_date_indices = {}
    /\ formatting_indices = {}
    /\ formatting_types = <<>> /\ missing_fields = <<>>
    /\ data = <<>> /\ id_numbers = {} /\ id_list = <<>> /\ issues = NoIssues
    /\ i = 0 /\ dup_pos = 1
    /\ date_of_birth \in IdentifierDates
    /\ gender \in {"Male", "Female"}
    /\ sa_id = None
    /\ population_df = None /\ pop_issues = None
    /\ application_df = None /\ app_issues = None /\ orphan_count = None
    /\ population_ids = <<>> /\ id_to_province = <<>> /\ branch_codes = <<>>
    /\ app_data = <<>> /\ app_i = 0 /\ paths = <<>>
    /\ df = None /\ df_issues = None /\ turn = 0 /\ sample_list = <<>>
    /\ number = <<>> /\ checksum = None
    /\ NoRuns
    /\ pc = "id_call"

\* Lines 117-142: the function applied to its arguments, with its two draws.
ApplyIdentifier ==
    /\ pc = "id_call"
    /\ \E sequence \in IdentifierSequences, age_indicator \in 0..8 :
          sa_id' = generate_sa_id_number(date_of_birth, gender, sequence, age_indicator)
    /\ pc' = "id_returned"
    /\ UNCHANGED <<configVars, error, requests, planVars, data, id_numbers,
                   id_list, issues, i, date_of_birth, gender, dup_pos, mainVars,
                   appVars, passVars, luhnVars, runsVars>>

NextIdentifier == ApplyIdentifier

SpecIdentifier == InitIdentifier /\ [][NextIdentifier]_vars

\* The standard Luhn total of a 13-digit identifier: from the digit left of
\* the check digit leftwards every second digit doubled (less 9 above 9),
\* the other digits, check digit included, as they are.
StandardLuhnTotal(id) ==
    SumSeq([ k \in 1..13 |-> IF (13 - k) % 2 = 1 THEN LuhnDoubled(id[k]) ELSE id[k] ])

\* C19: every identifier generate_sa_id_number returns has 13 digits and a
\* standard Luhn total divisible by 10.
C19_StandardLuhnValid ==
    pc = "id_returned" =>
        /\ Len(sa_id) = 13
        /\ \A k \in 1..13 : sa_id[k] \in 0..9
        /\ StandardLuhnTotal(sa_id) % 10 = 0

\* C19's case: an identifier of the year 2000 with sequence 9999 and age
\* indicator 8 whose check digit is not 0.
C19_Witness ==
    /\ pc = "id_returned"
    /\ date_of_birth[1] = 2000
    /\ SubSeq(sa_id, 7, 12) = <<9, 9, 9, 9, 0, 8>>
    /\ sa_id[13] # 0

----------------------------------------------------------------------------
(* Missing fields of the registry *)

OptionalFields == { "city", "street_address", "postal_code", "cell_number" }

AbsentFields(record) == { f \in OptionalFields : record[f] = None }

\* C20: in the table generate_population_data returns, a record whose index
\* is in the missing-field set has exactly one of the four optional fields
\* absent, the one assigned to its index; any other record has none absent;
\* missing_values is the number of records with an absent field.
C20_MissingFields ==
    pc = "pop_returned" =>
        /\ \A k \in 1..Len(population_df) :
              AbsentFields(population_df[k])
                  = IF (k - 1) \in missing_indices
                    THEN { missing_fields[k - 1] } ELSE {}
        /\ \A idx \in missing_indices : missing_fields[idx] \in OptionalFields
        /\ pop_issues.missing_values
               = Cardinality({ k \in 1..Len(population_df) :
                                 AbsentFields(population_df[k]) # {} })

\* C20's case: a record selected for a missing postal code, for an invalid
\* postal code and for formatting at once, next to a record with nothing
\* absent.
C20_Witness ==
    /\ pc = "pop_returned"
    /\ \E idx \in missing_indices \cap invalid_postal_indices \cap formatting_indices :
          /\ missing_fields[idx] = "postal_code"
          /\ population_df[idx + 1].postal_code = None
    /\ \E k \in 1..Len(population_df) :
          (k - 1) \notin missing_indices /\ AbsentFields(population_df[k]) = {}

----------------------------------------------------------------------------
(* Invalid postal codes of the registry *)

\* The four shapes of lines 245-250: three characters, five characters,
\* 'ABCD' or the empty string; an absent code has none of them.
MalformedPostalCode(code) ==
    code # None /\ (code = "" \/ code = "ABCD" \/ Len(code) \in {3, 5})

\* C21: in the table generate_population_data returns, every record whose
\* index is in the invalid-postal set has a postal code of one of the four
\* malformed shapes, and invalid_postal_codes is the number of records of
\* the table that carry such a code.
C21_InvalidPostalCodes ==
    pc = "pop_returned" =>
        /\ \A idx \in invalid_postal_indices :
              MalformedPostalCode(population_df[idx + 1].postal_code)
        /\ pop_issues.invalid_postal_codes
               = Cardinality({ k \in 1..Len(population_df) :
                                 MalformedPostalCode(population_df[k].postal_code) })

----------------------------------------------------------------------------
(* Creation dates of the registry *)

\* The number a digit string writes, and the date a '%Y-%m-%d' text writes.
RECURSIVE NumberOf(_)
NumberOf(ds) ==
    IF ds = <<>> THEN 0 ELSE NumberOf(SubSeq(ds, 1, Len(ds) - 1)) * 10 + ds[Len(ds)]

DateOf(text) == << NumberOf(text[1]), NumberOf(text[2]), NumberOf(text[3]) >>

\* The birth dates lines 206-209 can draw, at the ends of each range.
BirthDateEnds == { <<y, m, d>> : y \in {1944, 2006}, m \in {1, 12}, d \in {1, 28} }

----------------------------------------------------------------------------
(* Branches of the applications *)

BranchesOf(province) == Elements(DHA_BRANCHES[province])

\* C23: a row generate_application_data made on the matching path has a
\* branch of its own province; a row made on the mismatch path has a branch
\* of another province that is none of its own province's branches; the
\* branch lists of two provinces share no branch; every province of the
\* registry and of the rows is a key of the mapping, so the fallback of line
\* 500 is not taken.
C23_BranchOfProvince ==
    /\ \A k \in 1..Len(app_data) :
          LET row == app_data[k]
          IN  /\ row.province \in DOMAIN DHA_BRANCHES
              /\ IF paths[k].matching
                 THEN row.dha_branch_name \in BranchesOf(row.province)
                 ELSE /\ row.dha_branch_name \notin BranchesOf(row.province)
                      /\ \E p \in DOMAIN DHA_BRANCHES \ {row.province} :
                            row.dha_branch_name \in BranchesOf(p)
    /\ pc = "pop_returned" =>
          /\ \A k \in 1..Len(population_df) :
                population_df[k].province \in DOMAIN DHA_BRANCHES
          /\ Elements(SA_PROVINCES) = DOMAIN DHA_BRANCHES
          /\ \A p, q \in DOMAIN DHA_BRANCHES :
                p # q => BranchesOf(p) \cap BranchesOf(q) = {}

\* C23's case: generation has ended with a row made on the matching path
\* and a row made on the mismatch path.
C23_Witness ==
    /\ pc = "app_done"
    /\ \E k, m \in 1..Len(app_data) :
          /\ paths[k].matching
          /\ ~paths[m].matching
          /\ app_data[k].province = app_data[m].province
          /\ app_data[k].dha_branch_name # app_data[m].dha_branch_name

----------------------------------------------------------------------------
(* Dates of the applications *)

\* C24: a row generate_application_data made on the valid-ordering path has
\* application_date <= last_updated_date <= application_date + B days, B
\* being processing_days when that is positive and 30 otherwise; a row made
\* on the invalid-ordering path was last updated 1 to 30 days before its
\* application date.
C24_LastUpdatedRange ==
    \A k \in 1..Len(app_data) :
        LET row == app_data[k]
            B == IF row.processing_days > 0 THEN row.processing_days ELSE 30
        IN  IF paths[k].valid_order
            THEN /\ row.application_date <= row.last_updated_date
                 /\ row.last_updated_date <= row.application_date + B
            ELSE row.application_date - row.last_updated_date \in 1..30

\* C24's case: a row of duration 5000 last updated 5000 days after its
\* application, next to a row on the invalid-ordering path.
C24_Witness ==
    /\ pc \in {"app_record", "app_done"}
    /\ \E k \in 1..Len(app_data) :
          /\ paths[k].valid_order
          /\ app_data[k].processing_days = 5000
          /\ app_data[k].last_updated_date = app_data[k].application_date + 5000
    /\ \E k \in 1..Len(app_data) : ~paths[k].valid_order

----------------------------------------------------------------------------
(* References from the applications to the registry *)

\* C25: a row generate_application_data made on the reference path carries
\* an identifier of the population table, and its province is the province
\* of the last record of that table, in table order, that has the
\* identifier.
C25_ReferenceProvince ==
    \A k \in 1..Len(app_data) :
        ~paths[k].orphan =>
            \E m \in 1..Len(population_df) :
                /\ population_df[m].sa_id_number = app_data[k].sa_id_number
                /\ population_df[m].province = app_data[k].province
                /\ \A n \in (m + 1)..Len(population_df) :
                      population_df[n].sa_id_number # app_data[k].sa_id_number

\* C25's case: a reference to an identifier that two registry records of
\* different provinces share after the duplicate pass.
C25_Witness ==
    /\ pc = "app_done"
    /\ \E k \in 1..Len(app_data) :
          /\ ~paths[k].orphan
          /\ \E m, n \in 1..Len(population_df) :
                /\ m < n
                /\ population_df[m].sa_id_number = app_data[k].sa_id_number
                /\ population_df[n].sa_id_number = app_data[k].sa_id_number
                /\ population_df[m].province # population_df[n].province
                /\ app_data[k].province = population_df[n].province

----------------------------------------------------------------------------
(* What the duplicate pass leaves alone *)

OtherFields(record) == DOMAIN record \ {"sa_id_number"}

\* C26: once a record is appended to the table of generate_population_data,
\* no step removes or moves it or changes any of its fields other than
\* sa_id_number, date_of_birth included; its sa_id_number is changed only by
\* the duplicate pass and only if its index is duplicate-selected; the pass
\* leaves the number of records as it is; after the return nothing in main
\* changes the table.
C26_DuplicatePassFrame ==
    [][ /\ Len(data') >= Len(data)
        /\ \A k \in 1..Len(data) :
              /\ \A f \in OtherFields(data[k]) : data'[k][f] = data[k][f]
              /\ DOMAIN data'[k] = DOMAIN data[k]
              /\ data'[k].sa_id_number # data[k].sa_id_number =>
                    /\ pc = "pop_dups"
                    /\ (k - 1) \in duplicate_indices
        /\ pc = "pop_dups" => Len(data') = Len(data)
        /\ (caller = "main" /\ GeneratedPopulationHeld) =>
              population_df' = population_df
      ]_vars

\* C26's case: the pass has given a record the identifier of a record born
\* on another day in another province, and the record kept its own birth
\* date and province.
C26_Witness ==
    /\ pc = "pop_dups"
    /\ dup_pos > 1
    /\ \E k, m \in 1..Len(data) :
          /\ (k - 1) \in duplicate_indices
          /\ data[k].sa_id_number # id_list[CHOOSE p \in 1..Len(id_list) :
                                              id_list[p][1] = k - 1][2]
          /\ data[k].sa_id_number = data[m].sa_id_number
          /\ data[k].date_of_birth # data[m].date_of_birth
          /\ data[k].province # data[m].province
          /\ EncodesOwnBirthDate(data[m])

----------------------------------------------------------------------------
(* What inject_application_quality_issues leaves alone *)

\* The pass is at work on its copy of the table.
ApplicationPassRunning == caller = "main" /\ pc \in {"app_status", "app_mismatch"}

\* C27 as stated: the pass does not modify the table passed to it, and the
\* table it returns has the rows of its input in their order, the columns of
\* its input, and no cell that differs from the input.
C27_Original ==
    /\ ApplicationPassRunning => application_df = app_data
    /\ ApplicationIssuesReturned => application_df = app_data

ChangedRows(column) ==
    { k \in 1..Len(app_data) : application_df[k][column] # app_data[k][column] }

\* C27 as amended: the pass does not modify the table passed to it, and the
\* table it returns has the rows of its input in their order and the columns
\* of its input; the cells that can differ are application_status, absent in
\* missing_status rows that had one, and dha_branch_name, replaced in rows
\* whose branch was of the row's province by a branch of another province;
\* no other cell differs.
C27_PassFrame ==
    /\ ApplicationPassRunning => application_df = app_data
    /\ ApplicationIssuesReturned =>
          /\ Len(application_df) = Len(app_data)
          /\ \A k \in 1..Len(app_data) :
                /\ DOMAIN application_df[k] = DOMAIN app_data[k]
                /\ \A f \in DOMAIN app_data[k] \ {"application_status", "dha_branch_name"} :
                      application_df[k][f] = app_data[k][f]
          /\ \A k \in ChangedRows("application_status") :
                /\ app_data[k].application_status # None
                /\ application_df[k].application_status = None
          /\ Cardinality(ChangedRows("application_status")) = app_issues.missing_status
          /\ \A k \in ChangedRows("dha_branch_name") :
                /\ app_data[k].dha_branch_name \in BranchesOf(app_data[k].province)
                /\ application_df[k].dha_branch_name \notin BranchesOf(app_data[k].province)
                /\ application_df[k].dha_branch_name \in AllBranches

\* C27's case: the pass has returned a table of two rows in which one row
\* lost its status and one row changed its branch.
C27_Witness ==
    /\ ApplicationIssuesReturned
    /\ Len(application_df) = 2
    /\ ChangedRows("application_status") # {}
    /\ ChangedRows("dha_branch_name") # {}

----------------------------------------------------------------------------
(* Completion of generate_population_data *)

\* C28: for every number of rows and every three rates in [0, 1],
\* generate_population_data does not raise and returns a table of num_rows
\* rows; in particular the choice of a duplicate's source among the other
\* indices is never a choice in an empty list.
C28_CompletesWithoutRaising ==
    [][ /\ Stage(pc) = 1 => pc' # "raised"
        /\ (Stage(pc) = 1 /\ pc' = "pop_returned") => Len(population_df') = num_rows
      ]_vars

----------------------------------------------------------------------------
(* Termination of the retry loop *)

(***************************************************************************)
(* generate_population_data on its own, with the fairness of a sequential  *)
(* program whose random draws are fair: a step that can be taken is taken, *)
(* and a loop that keeps drawing draws every outcome sooner or later.  The *)
(* identifiers of a birth date are as many as the scenario's sequences and *)
(* age indicators (10,000 x 9 in the program, 2 x 1 here), so that a       *)
(* registry of three records uses up those of its one birth date.  A      *)
(* variable the function has not assigned yet holds the empty value of the *)
(* kind it is assigned later.                                              *)
(***************************************************************************)
DrawsRetry ==
    [ DrawsIdentifiers EXCEPT !.provinces = { "Gauteng" } ]

InitRetry ==
    /\ now = toordinal(<<2025, 1, 1>>)
    /\ draws = DrawsRetry
    /\ caller = "main"
    /\ POPULATION_ROWS \in 0..MaxRows
    /\ APPLICATION_ROWS = 0
    /\ DUPLICATE_RATE \in {RateZero, RateOne}
    /\ MISSING_VALUE_RATE = RateZero
    /\ INVALID_VALUE_RATE = RateZero
    /\ error = None /\ requests = {}
    /\ duplicate_indices = {} /\ missing_indices = {}
    /\ invalid_postal_indices = {} /\ future_date_indices = {}
    /\ formatting_indices = {}
    /\ formatting_types = <<>> /\ missing_fields = <<>>
    /\ data = <<>> /\ id_numbers = {} /\ id_list = <<>> /\ issues = NoIssues
    /\ i = 0 /\ dup_pos = 1
    /\ date_of_birth = <<>> /\ gender = None /\ sa_id = <<>>
    /\ population_df = <<>> /\ pop_issues = NoIssues
    /\ application_df = None /\ app_issues = None /\ orphan_count = None
    /\ population_ids = <<>> /\ id_to_province = <<>> /\ branch_codes = <<>>
    /\ app_data = <<>> /\ app_i = 0 /\ paths = <<>>
    /\ df = None /\ df_issues = None /\ turn = 0 /\ sample_list = <<>>
    /\ number = <<>> /\ checksum = None
    /\ NoRuns
    /\ pc = "pop_plan"

NextRetry ==
    \/ PlanAnomalies
    \/ DrawRecord
    \/ RedrawIdentifier
    \/ FinishRecord
    \/ ApplyDuplicate
    \/ ReturnPopulation

\* A step of the function other than a turn of the retry loop; each moves
\* pc, i or dup_pos, and at most one is possible at a time.
ProgressRetry ==
    \/ PlanAnomalies
    \/ DrawRecord
    \/ FinishRecord
    \/ ApplyDuplicate
    \/ ReturnPopulation

FairRetry ==
    /\ WF_<<pc, i, dup_pos>>(ProgressRetry)
    /\ \A sequence \in DrawsRetry.sequences,
          age_indicator \in DrawsRetry.age_indicators :
          WF_sa_id(RedrawIdentifierTo(sequence, age_indicator))

SpecRetry == InitRetry /\ [][NextRetry]_vars /\ FairRetry

\* The identifiers generate_sa_id_number can return for a birth date.
IdentifiersFor(dob) ==
    { generate_sa_id_number(dob, gender, sequence, age_indicator) :
        sequence \in draws.sequences, age_indicator \in draws.age_indicators }

\* The retry loop is at work and every identifier of the record's birth
\* date is issued; and the loop is at work with one of them still unused.
Exhausted == pc = "pop_unique" /\ IdentifiersFor(date_of_birth) \subseteq id_numbers
RetryWithUnused == pc = "pop_unique" /\ ~(IdentifiersFor(date_of_birth) \subseteq id_numbers)

\* C29: while an identifier of the record's birth date is unused, the retry
\* loop ends, the draws being fair; once every identifier of the record's
\* birth date is issued, the loop never ends; so registry generation
\* returns unless it meets such a birth date.
C29_RetryLoopTerminates ==
    /\ [](RetryWithUnused => <>(pc # "pop_unique"))
    /\ [][Exhausted => pc' = "pop_unique"]_vars
    /\ <>(pc = "pop_returned" \/ Exhausted)

-----------------------------------------------------------------------------
(* The branch code of a row of the final applications table *)

\* C30: in the applications table the follow-up pass returns, every row's
\* branch_code is the code assigned at the start of generation to the row's
\* dha_branch_name, and two rows of the same dha_branch_name have the same
\* branch_code.
C30_BranchCodeOfName ==
    ApplicationIssuesReturned =>
        /\ \A k \in 1..Len(application_df) :
              application_df[k].branch_code
                  = branch_codes[application_df[k].dha_branch_name]
        /\ \A k, m \in 1..Len(application_df) :
              application_df[k].dha_branch_name = application_df[m].dha_branch_name
                  => application_df[k].branch_code = application_df[m].branch_code

====
